---- MODULE Spec2Model ----
(***************************************************************************)
(* Model of the image promotion step of ci-operator                        *)
(* (pkg/steps/release/promote.go).                                         *)
(*                                                                         *)
(* Go strings are sequences of one-character strings, so that formatting,  *)
(* splitting and comparing them is computed and not assumed.  Go maps are  *)
(* functions with a finite domain; ranging over a Go map visits its keys   *)
(* in an unspecified order, which is modelled as a choice among all the    *)
(* orders.                                                                 *)
(***************************************************************************)
EXTENDS Integers, Sequences, FiniteSets, TLC

VARIABLES
    configuration,      \* promotionStep.configuration (*api.ReleaseBuildConfiguration)
    requiredImages,     \* promotionStep.requiredImages (sets.String)
    pc,                 \* which operation has been applied to the inputs
    tagsByDst,          \* toPromote: first return value
    names,              \* toPromote: second return value
    evals,              \* results of successive PromotedTagsWithRequiredImages calls
    runTags,            \* run: tags as returned by PromotedTagsWithRequiredImages
    runNames,           \* run: names as returned by PromotedTagsWithRequiredImages
    pipeline,           \* run: the pipeline ImageStream the client returned
    imageMirrorTarget,  \* run: result of getImageMirrorTarget
    getCalls,           \* number of client.Get calls made by run
    pods,               \* pods handed to steps.RunPod by run, in order
    runErr,             \* error returned by promotionStep.Run
    getResult,          \* what client.Get answered to run: "none" while not called
    podResult,          \* what steps.RunPod answered to run: "none" while not called
    reference,          \* getPublicImageReference: the dockerImageReference argument
    repository,         \* getPublicImageReference: the publicDockerImageRepository argument
    publicReference,    \* getPublicImageReference: return value
    requires,           \* Executor: the links each step of the graph requires
    parallelism,        \* Executor: the configured number of workers
    state,              \* Executor: the state of each step
    queue,              \* Executor: the runnable steps no worker has taken yet
    worker,             \* Executor: the step each worker is running, or "idle"
    runCount,           \* Executor: how many times Run of each step was invoked
    cancelled,          \* Executor: the run's cancellation signal is raised
    runResult,          \* the result of the whole run: "none" until it is reported
    runReason,          \* the reason reported with a failed run
    secretName,         \* NormalizeSecretName: the name argument
    normalized,         \* NormalizeSecretName: return value
    backoff,            \* generateServiceAccountKeyWithBackoff: the backoff argument
    iam,                \* the answers the IAM client gives, call by call
    sm,                 \* the answers the Secret Manager client gives
    calls,              \* the client calls made so far, in order
    actions,            \* the Actions value: SAsToCreate, SecretsToCreate
    keyData,            \* generateServiceAccountKeyWithBackoff: returned key data
    keyErr,             \* generateServiceAccountKeyWithBackoff: returned error
    secretErr           \* CreateOrUpdateSecret: returned error

vars == <<configuration, requiredImages, pc, tagsByDst, names, evals, runTags,
          runNames, pipeline, imageMirrorTarget, getCalls, pods, runErr, getResult,
          podResult, reference, repository, publicReference, requires, parallelism,
          state, queue, worker, runCount, cancelled, runResult, runReason,
          secretName, normalized, backoff, iam, sm, calls, actions, keyData, keyErr,
          secretErr>>

inputVars == <<configuration, requiredImages>>
toPromoteVars == <<tagsByDst, names>>
runVars == <<runTags, runNames, pipeline, imageMirrorTarget, getCalls, pods, runErr,
             getResult, podResult>>
refVars == <<reference, repository, publicReference>>
reportVars == <<cancelled, runResult, runReason>>
execVars == <<requires, parallelism, state, queue, worker, runCount, reportVars>>
gsmVars == <<secretName, normalized, backoff, iam, sm, calls, actions, keyData, keyErr,
          secretErr>>

----------------------------------------------------------------------------
(* Bounds of the model *)

MaxImages == 2
MaxExcluded == 1
MaxAdditional == 1
MaxStatusTags == 2
MaxReferenceParts == 5
MaxRepositoryParts == 3
MaxParallelism == 2
MaxSecretNameParts == 3
MaxBackoffSteps == 3
MaxCreateKeyAnswers == 3
MaxGetAccountAnswers == 3

----------------------------------------------------------------------------
(* Strings *)

\* the characters in use, in ascending byte order
Alphabet == <<"-", "/", "0", "5", ":", "=", "a", "b", "c", "e", "f", "g", "h",
              "i", "l", "m", "n", "o", "p", "q", "r", "t", "u">>

Code(ch) == CHOOSE i \in 1..Len(Alphabet) : Alphabet[i] = ch

\* s < t for Go strings (bytewise lexicographic)
RECURSIVE StrLess(_, _)
StrLess(s, t) ==
    IF t = <<>> THEN FALSE
    ELSE IF s = <<>> THEN TRUE
    ELSE IF Head(s) = Head(t) THEN StrLess(Tail(s), Tail(t))
    ELSE Code(Head(s)) < Code(Head(t))

\* strings.Index(s, sub): the first position (from 1) where sub occurs in s, 0 if none
Index(s, sub) ==
    LET at == {i \in 1..(Len(s) - Len(sub) + 1) : SubSeq(s, i, i + Len(sub) - 1) = sub}
    IN IF Len(sub) > Len(s) \/ at = {} THEN 0
       ELSE CHOOSE i \in at : \A j \in at : i <= j

\* strings.Contains(s, sub)
Contains(s, sub) == Index(s, sub) # 0

\* strings.Split(s, sep) for a non-empty separator
RECURSIVE Split(_, _)
Split(s, sep) ==
    LET i == Index(s, sep)
    IN IF i = 0 THEN <<s>>
       ELSE <<SubSeq(s, 1, i - 1)>> \o Split(SubSeq(s, i + Len(sep), Len(s)), sep)

\* strings.Replace(s, old, new, 1)
ReplaceFirst(s, old, new) ==
    LET i == IF old = <<>> THEN 1 ELSE Index(s, old)
    IN IF i = 0 THEN s
       ELSE SubSeq(s, 1, i - 1) \o new \o SubSeq(s, i + Len(old), Len(s))

----------------------------------------------------------------------------
(* Go maps *)

EmptyMap == [k \in {} |-> <<>>]

MapPut(m, key, value) ==
    [k \in (DOMAIN m) \cup {key} |-> IF k = key THEN value ELSE m[k]]

MapDelete(m, key) == [k \in (DOMAIN m) \ {key} |-> m[k]]

\* the orders in which a range loop may visit the keys S of a map
Orders(S) ==
    {o \in [1..Cardinality(S) -> S] : \A k \in S : \E i \in 1..Cardinality(S) : o[i] = k}

\* the sequences over S of length at most n
SeqUpTo(S, n) == UNION {[1..k -> S] : k \in 0..n}

\* the maps from at most n keys of K to values of V
MapsUpTo(K, V, n) ==
    UNION {[D -> V] : D \in {D \in SUBSET K : Cardinality(D) <= n}}

----------------------------------------------------------------------------
(* Constants of the program and the values the inputs are drawn from *)

\* api.PipelineImageStreamTagReferenceBinaries
PipelineImageStreamTagReferenceBinaries == <<"b", "i", "n">>

\* api.DomainForService(api.ServiceRegistry)
ServiceRegistryDomain == <<"r", "e", "g">>

\* api.BuildCacheFor(configuration.Metadata), for the metadata org o, repo r, branch m
BuildCacheFor ==
    [Namespace |-> <<"b", "u", "i", "l", "d", "-", "c", "a", "c", "h", "e">>,
     Name |-> <<"o", "-", "r">>,
     Tag |-> <<"m">>]

\* JobSpec.Namespace()
JobNamespace == <<"c", "i">>

TagA == <<"a">>
TagB == <<"b">>
TagC == <<"c">>

ImageTags == {TagA, TagB}
DstTags == {TagA, TagB, TagC}
SrcTags == {TagA, TagB, PipelineImageStreamTagReferenceBinaries}

\* api.ProjectDirectoryImageBuildStepConfiguration: the fields promotion reads
ImageConfigs == [To : ImageTags, Optional : BOOLEAN]

\* the two addressing modes of a promotion configuration: Name set, or Tag set
Addressing == {[Name |-> <<"n">>, Tag |-> <<>>], [Name |-> <<>>, Tag |-> <<"t">>]}

\* api.PromotionConfiguration
PromotionConfig(disabled, addr, excluded, additional, noCache, override) ==
    [Disabled |-> disabled,
     Namespace |-> <<"o", "c", "p">>,
     Name |-> addr.Name,
     Tag |-> addr.Tag,
     ExcludedImages |-> excluded,
     AdditionalImages |-> additional,
     DisableBuildCache |-> noCache,
     RegistryOverride |-> override]

\* api.ReleaseBuildConfiguration: the fields promotion reads
ReleaseBuildConfig(images, binaryBuildCommands, promotion) ==
    [Images |-> images,
     BinaryBuildCommands |-> binaryBuildCommands,
     PromotionConfiguration |-> promotion]

----------------------------------------------------------------------------
(* toPromote *)

\* includeImage with "and" in place of "or"
includeImage_And(image, required) == image.To \in required /\ ~image.Optional

\* promote.go:201, the condition under which an image is promoted
includeImage(image, required) == image.To \in required \/ ~image.Optional

\* promote.go:198-205, the loop over the declared images
RECURSIVE includeImages(_, _, _)
includeImages(images, required, acc) ==
    IF images = <<>> THEN acc
    ELSE LET image == Head(images)
             tag == image.To
         IN includeImages(Tail(images), required,
                IF includeImage(image, required)
                THEN [tagsByDst |-> MapPut(acc.tagsByDst, tag, tag),
                      names |-> acc.names \cup {tag}]
                ELSE acc)

\* excludeImages deleting nothing
excludeImages_Skip(excluded, acc) == acc

\* promote.go:206-209, the loop over config.ExcludedImages
RECURSIVE excludeImages(_, _)
excludeImages(excluded, acc) ==
    IF excluded = <<>> THEN acc
    ELSE excludeImages(Tail(excluded),
             [tagsByDst |-> MapDelete(acc.tagsByDst, Head(excluded)),
              names |-> acc.names \ {Head(excluded)}])

\* addImages keeping an entry already computed for the destination
RECURSIVE addImages_KeepPrior(_, _, _)
addImages_KeepPrior(order, additional, acc) ==
    IF order = <<>> THEN acc
    ELSE LET dst == Head(order)
         IN addImages_KeepPrior(Tail(order), additional,
                IF dst \in DOMAIN acc.tagsByDst THEN acc
                ELSE [tagsByDst |-> MapPut(acc.tagsByDst, dst, additional[dst]),
                      names |-> acc.names \cup {dst}])

\* promote.go:210-213, the loop over config.AdditionalImages in the order given
RECURSIVE addImages(_, _, _)
addImages(order, additional, acc) ==
    IF order = <<>> THEN acc
    ELSE LET dst == Head(order)
             src == additional[dst]
         IN addImages(Tail(order), additional,
                [tagsByDst |-> MapPut(acc.tagsByDst, dst, src),
                 names |-> acc.names \cup {dst}])

\* The results toPromote can return.  The keys of AdditionalImages are visited in
\* an unspecified order, so there is one result for each order.
toPromote(config, images, required) ==
    LET empty == [tagsByDst |-> EmptyMap, names |-> {}]
    IN IF config.Disabled THEN {empty}
       ELSE {addImages(order, config.AdditionalImages,
                 excludeImages(config.ExcludedImages,
                     includeImages(images, required, empty)))
             : order \in Orders(DOMAIN config.AdditionalImages)}

----------------------------------------------------------------------------
(* PromotedTagsWithRequiredImages *)

\* api.ImageStreamTagReference.ISTagName
ISTagName(ref) == ref.Namespace \o <<"/">> \o ref.Name \o <<":">> \o ref.Tag

\* promote.go:241-254, the destination reference of the promoted tag dst
destinationFor(promotion, dst) ==
    IF promotion.Name # <<>>
    THEN [Namespace |-> promotion.Namespace, Name |-> promotion.Name, Tag |-> dst]
    ELSE [Namespace |-> promotion.Namespace, Name |-> dst, Tag |-> promotion.Tag]

\* promote.go:240-256, the loop over tags (destination -> source) in the order given:
\* the reference of each destination is stored under its source
RECURSIVE invertTags(_, _, _, _)
invertTags(order, tags, promotion, promotedTags) ==
    IF order = <<>> THEN promotedTags
    ELSE LET dst == Head(order)
             src == tags[dst]
         IN invertTags(Tail(order), tags, promotion,
                MapPut(promotedTags, src, destinationFor(promotion, dst)))

\* addBuildCache not reading DisableBuildCache
addBuildCache_IgnoreDisable(config, promotedTags) ==
    IF config.BinaryBuildCommands # <<>>
    THEN MapPut(promotedTags, PipelineImageStreamTagReferenceBinaries, BuildCacheFor)
    ELSE promotedTags

\* promote.go:257-260, the build cache of the binary build
addBuildCache(config, promotedTags) ==
    IF config.BinaryBuildCommands # <<>> /\ ~config.PromotionConfiguration.DisableBuildCache
    THEN MapPut(promotedTags, PipelineImageStreamTagReferenceBinaries, BuildCacheFor)
    ELSE promotedTags

\* PromotedTagsWithRequiredImages not reading Disabled
PromotedTagsWithRequiredImages_NoDisabledCheck(config, required) ==
    UNION {
      {[tags |-> addBuildCache(config,
                     invertTags(order, p.tagsByDst, config.PromotionConfiguration,
                                EmptyMap)),
        names |-> p.names]
       : order \in Orders(DOMAIN p.tagsByDst)}
      : p \in toPromote(config.PromotionConfiguration, config.Images, required)}

\* The results PromotedTagsWithRequiredImages can return, one for each order in
\* which the range loop visits the keys of tags.
PromotedTagsWithRequiredImages(config, required) ==
    IF config.PromotionConfiguration.Disabled
    THEN {[tags |-> EmptyMap, names |-> {}]}
    ELSE UNION {
           {[tags |-> addBuildCache(config,
                          invertTags(order, p.tagsByDst, config.PromotionConfiguration,
                                     EmptyMap)),
             names |-> p.names]
            : order \in Orders(DOMAIN p.tagsByDst)}
           : p \in toPromote(config.PromotionConfiguration, config.Images, required)}

----------------------------------------------------------------------------
(* Mirror targets and the promotion pod *)

\* promote.go:80-86
registryDomain(promotion) ==
    IF promotion.RegistryOverride # <<>> THEN promotion.RegistryOverride
    ELSE ServiceRegistryDomain

\* promote.go:176-187, over the list is.Status.Tags
RECURSIVE findInTags(_, _)
findInTags(statusTags, tag) ==
    IF statusTags = <<>> THEN <<>>
    ELSE LET t == Head(statusTags)
         IN IF t.Tag # tag THEN findInTags(Tail(statusTags), tag)
            ELSE IF Len(t.Items) = 0 THEN <<>>
            ELSE t.Items[1].DockerImageReference

findDockerImageReference(is, tag) == findInTags(is.Status.Tags, tag)

\* the text that marks a reference into the cluster-internal registry
InternalRegistryPort == <<":", "5", "0", "0", "0">>

\* getPublicImageReference putting the whole public repository in place of the host
getPublicImageReference_WholeRepository(dockerImageReference, publicDockerImageRepository) ==
    IF ~Contains(dockerImageReference, InternalRegistryPort) THEN dockerImageReference
    ELSE LET repoSplits == Split(publicDockerImageRepository, <<"/">>)
             refSplits == Split(dockerImageReference, <<"/">>)
         IN IF Len(repoSplits) < 2 THEN dockerImageReference
            ELSE IF Len(refSplits) < 2 THEN dockerImageReference
            ELSE ReplaceFirst(dockerImageReference, refSplits[1],
                              publicDockerImageRepository)

\* getPublicImageReference not testing whether the public repository names a host
getPublicImageReference_NoHostCheck(dockerImageReference, publicDockerImageRepository) ==
    IF ~Contains(dockerImageReference, InternalRegistryPort) THEN dockerImageReference
    ELSE LET repoSplits == Split(publicDockerImageRepository, <<"/">>)
             refSplits == Split(dockerImageReference, <<"/">>)
         IN IF Len(refSplits) < 2 THEN dockerImageReference
            ELSE ReplaceFirst(dockerImageReference, refSplits[1], repoSplits[1])

\* promote.go:107-125
getPublicImageReference(dockerImageReference, publicDockerImageRepository) ==
    IF ~Contains(dockerImageReference, InternalRegistryPort) THEN dockerImageReference
    ELSE LET repoSplits == Split(publicDockerImageRepository, <<"/">>)
             refSplits == Split(dockerImageReference, <<"/">>)
         IN IF Len(repoSplits) < 2 THEN dockerImageReference
            ELSE IF Len(refSplits) < 2 THEN dockerImageReference
            ELSE ReplaceFirst(dockerImageReference, refSplits[1], repoSplits[1])

\* mirrorTags not skipping a tag without a recorded reference
RECURSIVE mirrorTags_NoSkip(_, _, _, _, _)
mirrorTags_NoSkip(order, tags, is, registry, imageMirror) ==
    IF order = <<>> THEN imageMirror
    ELSE LET src == Head(order)
             dst == tags[src]
             dockerImageReference == findDockerImageReference(is, src)
         IN mirrorTags_NoSkip(Tail(order), tags, is, registry,
                MapPut(imageMirror,
                    getPublicImageReference(dockerImageReference,
                        is.Status.PublicDockerImageRepository),
                    registry \o <<"/">> \o ISTagName(dst)))

\* promote.go:93-100, the loop over tags (source -> destination) in the order given
RECURSIVE mirrorTags(_, _, _, _, _)
mirrorTags(order, tags, is, registry, imageMirror) ==
    IF order = <<>> THEN imageMirror
    ELSE LET src == Head(order)
             dst == tags[src]
             dockerImageReference == findDockerImageReference(is, src)
         IN mirrorTags(Tail(order), tags, is, registry,
                IF dockerImageReference = <<>> THEN imageMirror
                ELSE MapPut(imageMirror,
                         getPublicImageReference(dockerImageReference,
                             is.Status.PublicDockerImageRepository),
                         registry \o <<"/">> \o ISTagName(dst)))

\* The results getImageMirrorTarget can return for a stream that is not nil, one
\* for each order in which the range loop visits the keys of tags.  The nil map
\* returned when nothing was resolved is the empty map.
getImageMirrorTarget(tags, is, registry) ==
    {mirrorTags(order, tags, is, registry, EmptyMap) : order \in Orders(DOMAIN tags)}

\* SortStrings in descending order
SortStrings_Descending(S) ==
    CHOOSE o \in Orders(S) :
        \A i, j \in 1..Cardinality(S) : i < j => StrLess(o[j], o[i])

\* sort.Strings over the keys of a map
SortStrings(S) ==
    CHOOSE o \in Orders(S) :
        \A i, j \in 1..Cardinality(S) : i < j => StrLess(o[i], o[j])

\* getPromotionPod listing the first pair only
getPromotionPod_FirstOnly(mirror, namespace) ==
    LET keys == SortStrings(DOMAIN mirror)
    IN [Name |-> "promotion",
        Namespace |-> namespace,
        Images |-> [i \in 1..1 |-> keys[i] \o <<"=">> \o mirror[keys[i]]]]

\* promote.go:127-172: the pod, with the source=destination pairs its argument
\* lists after the fixed command text
getPromotionPod(mirror, namespace) ==
    LET keys == SortStrings(DOMAIN mirror)
    IN [Name |-> "promotion",
        Namespace |-> namespace,
        Images |-> [i \in 1..Len(keys) |-> keys[i] \o <<"=">> \o mirror[keys[i]]]]

----------------------------------------------------------------------------
(* The inputs *)

ImageLists == SeqUpTo(ImageConfigs, MaxImages)
ExcludedLists == SeqUpTo(DstTags, MaxExcluded)
AdditionalMaps == MapsUpTo(DstTags, SrcTags, MaxAdditional)
BinaryBuildCommandsValues == {<<>>, <<"g", "o">>}

\* image references recorded in the pipeline stream: one in the cluster-internal
\* registry, one in an external registry
InternalReference == <<"f", ":", "5", "0", "0", "0", "/", "i">>
ExternalReference == <<"q", "/", "i">>
DockerImageReferences == {InternalReference, ExternalReference}

\* imagev1.NamedTagEventList: the fields promotion reads
StatusTagEntries ==
    [Tag : SrcTags,
     Items : {<<>>} \cup {<<[DockerImageReference |-> r]>> : r \in DockerImageReferences}]

PublicDockerImageRepositories == {<<>>, <<"p">>, <<"p", "/", "n">>}

\* imagev1.ImageStream: the fields promotion reads
ImageStreams ==
    {[Status |-> [Tags |-> t, PublicDockerImageRepository |-> r]]
     : t \in SeqUpTo(StatusTagEntries, MaxStatusTags), r \in PublicDockerImageRepositories}

NoImageStream == [Status |-> [Tags |-> <<>>, PublicDockerImageRepository |-> <<>>]]

\* the error value returned by promotionStep.Run
NoError == [isNil |-> TRUE, reason |-> "", message |-> ""]
ErrorFor(reason, message) == [isNil |-> FALSE, reason |-> reason, message |-> message]

\* the state before any operation is applied to the inputs
NothingCalled ==
    /\ pc = "ready"
    /\ tagsByDst = EmptyMap
    /\ names = {}
    /\ evals = <<>>
    /\ runTags = EmptyMap
    /\ runNames = {}
    /\ pipeline = NoImageStream
    /\ imageMirrorTarget = EmptyMap
    /\ getCalls = 0
    /\ pods = <<>>
    /\ runErr = NoError
    /\ getResult = "none"
    /\ podResult = "none"
    /\ publicReference = <<>>

\* nothing of the secret management is being looked at
NoGsm ==
    /\ secretName = <<>>
    /\ normalized = <<>>
    /\ backoff = [Steps |-> 0]
    /\ iam = <<>>
    /\ sm = <<>>
    /\ calls = <<>>
    /\ actions = <<>>
    /\ keyData = <<>>
    /\ keyErr = FALSE
    /\ secretErr = FALSE

\* the run is neither cancelled nor reported
NotReported ==
    /\ cancelled = FALSE
    /\ runResult = "none"
    /\ runReason = ""

\* no graph is being executed
NoExecutor ==
    /\ requires = <<>>
    /\ parallelism = 0
    /\ state = <<>>
    /\ queue = <<>>
    /\ worker = <<>>
    /\ runCount = <<>>
    /\ NotReported
    /\ NoGsm

\* no call of getPublicImageReference on its own is being looked at
NoReference ==
    /\ reference = <<>>
    /\ repository = <<>>
    /\ NoExecutor

----------------------------------------------------------------------------
(* toPromote applied to every promotion configuration, image list and set of *)
(* required images                                                           *)

InitToPromote ==
    /\ \E disabled \in BOOLEAN, images \in ImageLists, excluded \in ExcludedLists,
          additional \in AdditionalMaps, addr \in Addressing :
          configuration = ReleaseBuildConfig(images, <<>>,
              PromotionConfig(disabled, addr, excluded, additional, FALSE, <<>>))
    /\ requiredImages \in SUBSET ImageTags
    /\ NothingCalled
    /\ NoReference

ToPromoteCall ==
    /\ pc = "ready"
    /\ \E result \in toPromote(configuration.PromotionConfiguration,
                              configuration.Images, requiredImages) :
          /\ tagsByDst' = result.tagsByDst
          /\ names' = result.names
    /\ pc' = "toPromote"
    /\ UNCHANGED <<inputVars, evals, runVars, refVars, execVars, gsmVars>>

SpecToPromote == InitToPromote /\ [][ToPromoteCall]_vars

----------------------------------------------------------------------------
(* PromotedTagsWithRequiredImages evaluated repeatedly on one configuration *)

\* configuration is any configuration with the given value of Disabled: every image
\* list, exclusion list, additional-image map, addressing mode and build-cache setting
AnyConfiguration(disabled) ==
    \E images \in ImageLists, excluded \in ExcludedLists, additional \in AdditionalMaps,
       addr \in Addressing, commands \in BinaryBuildCommandsValues, noCache \in BOOLEAN :
       configuration = ReleaseBuildConfig(images, commands,
           PromotionConfig(disabled, addr, excluded, additional, noCache, <<>>))

\* The exclusions are left to toPromote's own specification: here every set of
\* promoted image tags comes from the image list and the required images.
InitPromotedTags ==
    /\ \/ \E images \in ImageLists, additional \in AdditionalMaps, addr \in Addressing,
             commands \in BinaryBuildCommandsValues, noCache \in BOOLEAN :
             configuration = ReleaseBuildConfig(images, commands,
                 PromotionConfig(FALSE, addr, <<>>, additional, noCache, <<>>))
       \/ \E images \in ImageLists, commands \in BinaryBuildCommandsValues :
             configuration = ReleaseBuildConfig(images, commands,
                 PromotionConfig(TRUE, [Name |-> <<"n">>, Tag |-> <<>>], <<>>, EmptyMap,
                                 FALSE, <<>>))
    /\ requiredImages \in SUBSET ImageTags
    /\ NothingCalled
    /\ NoReference

\* a caller evaluates the function, and then evaluates it once more
PromotedTagsCall ==
    /\ \/ pc = "ready" /\ pc' = "PromotedTags"
       \/ pc = "PromotedTags" /\ pc' = "PromotedTagsAgain"
    /\ \E result \in PromotedTagsWithRequiredImages(configuration, requiredImages) :
          evals' = Append(evals, result)
    /\ UNCHANGED <<inputVars, toPromoteVars, runVars, refVars, execVars, gsmVars>>

SpecPromotedTags == InitPromotedTags /\ [][PromotedTagsCall]_vars

----------------------------------------------------------------------------
(* promotionStep.Run *)

\* podError dropping the error of the pod
podError_Swallowed(answer) == NoError

\* promote.go:73-76, the error of run for the answer of steps.RunPod
podError(answer) ==
    IF answer = "error"
    THEN ErrorFor("promoting_images", "unable to run promotion pod")
    ELSE NoError

\* promote.go:47-77.  The client's answers are inputs of the step: Get fails or
\* fills in one of the given image streams, RunPod fails or succeeds.
runWith(streams) ==
    /\ pc = "ready"
    /\ pc' = "done"
    /\ \E result \in PromotedTagsWithRequiredImages(configuration, requiredImages) :
          /\ runTags' = result.tags
          /\ runNames' = result.names
          /\ IF Cardinality(result.names) = 0
             THEN /\ runErr' = NoError
                  /\ UNCHANGED <<pipeline, imageMirrorTarget, getCalls, pods,
                                 getResult, podResult>>
             ELSE /\ getCalls' = getCalls + 1
                  /\ \/ /\ getResult' = "error"
                        /\ runErr' = ErrorFor("promoting_images",
                                         "could not resolve pipeline imagestream")
                        /\ UNCHANGED <<pipeline, imageMirrorTarget, pods, podResult>>
                     \/ \E is \in streams :
                          /\ getResult' = "ok"
                          /\ pipeline' = is
                          /\ \E mirror \in getImageMirrorTarget(result.tags, is,
                                     registryDomain(configuration.PromotionConfiguration)) :
                                /\ imageMirrorTarget' = mirror
                                /\ IF Cardinality(DOMAIN mirror) = 0
                                   THEN /\ runErr' = NoError
                                        /\ UNCHANGED <<pods, podResult>>
                                   ELSE /\ pods' = Append(pods,
                                               getPromotionPod(mirror, JobNamespace))
                                        /\ podResult' \in {"ok", "error"}
                                        /\ runErr' = podError(podResult')
    /\ UNCHANGED <<inputVars, toPromoteVars, evals, refVars, gsmVars>>

\* promotionStep.Run on its own, with every image stream as the client's answer
Run == runWith(ImageStreams) /\ UNCHANGED execVars

\* The step is run on every disabled configuration, and on the enabled configurations
\* that promote none, one or two declared images, with at most one additional image
\* c taken from a, b or the binaries tag.
RunImageLists ==
    {<<>>,
     <<[To |-> TagA, Optional |-> FALSE]>>,
     <<[To |-> TagA, Optional |-> FALSE], [To |-> TagB, Optional |-> FALSE]>>}

RunAdditionalMaps == MapsUpTo({TagC}, SrcTags, MaxAdditional)

RegistryOverrides == {<<>>, <<"q">>}

Init ==
    /\ \/ /\ AnyConfiguration(TRUE)
          /\ requiredImages \in SUBSET ImageTags
          /\ NothingCalled
          /\ NoReference
       \/ /\ \E images \in RunImageLists, additional \in RunAdditionalMaps,
                addr \in Addressing, commands \in BinaryBuildCommandsValues,
                noCache \in BOOLEAN, override \in RegistryOverrides :
                configuration = ReleaseBuildConfig(images, commands,
                    PromotionConfig(FALSE, addr, <<>>, additional, noCache, override))
          /\ requiredImages = {}
          /\ NothingCalled
          /\ NoReference

Next == Run

Spec == Init /\ [][Next]_vars

----------------------------------------------------------------------------
(* getPublicImageReference applied to references and public repositories built *)
(* from a few parts                                                            *)

\* the concatenation of a list of strings
RECURSIVE Concat(_)
Concat(parts) == IF parts = <<>> THEN <<>> ELSE Head(parts) \o Concat(Tail(parts))

ReferenceParts == {<<"f">>, InternalRegistryPort, <<"/">>, <<"i">>}
RepositoryParts == {<<"p">>, <<"/">>, <<"n">>}

InitPublicReference ==
    /\ \E parts \in SeqUpTo(ReferenceParts, MaxReferenceParts) :
          reference = Concat(parts)
    /\ \E parts \in SeqUpTo(RepositoryParts, MaxRepositoryParts) :
          repository = Concat(parts)
    /\ configuration = ReleaseBuildConfig(<<>>, <<>>,
           PromotionConfig(FALSE, [Name |-> <<"n">>, Tag |-> <<>>], <<>>, EmptyMap,
                           FALSE, <<>>))
    /\ requiredImages = {}
    /\ NothingCalled
    /\ NoExecutor

PublicReferenceCall ==
    /\ pc = "ready"
    /\ pc' = "publicReference"
    /\ publicReference' = getPublicImageReference(reference, repository)
    /\ UNCHANGED <<inputVars, toPromoteVars, evals, runVars, reference, repository,
                   execVars, gsmVars>>

SpecPublicReference == InitPublicReference /\ [][PublicReferenceCall]_vars

----------------------------------------------------------------------------
(* The Executor running a step graph that ends in the promotion step *)

\* promote.go:276, the name of the promotion step
PromotionStepName == "[promotion]"

\* the steps of the graph other than the promotion step; each creates one link,
\* written as the name of the step
PlainSteps == {"src", "bin", "test"}
Steps == PlainSteps \cup {PromotionStepName}

\* the wildcard link, required by a step that runs after all other steps
AllStepsLink == "*"

\* promotionStep.Requires without the wildcard link
promotionRequires_None == {}

\* promote.go:264-266, promotionStep.Requires
promotionRequires == {AllStepsLink}

\* promote.go:268-270, promotionStep.Creates
promotionCreates == {}

\* promote.go:272-274, promotionStep.Provides
promotionProvides == {}

\* the links a step of the graph can require
Links == PlainSteps \cup promotionCreates

\* the steps a step requires directly: the creators of its links, every other
\* step for the wildcard link
RequiredSteps(s) ==
    IF AllStepsLink \in requires[s]
    THEN Steps \ {s}
    ELSE {t \in Steps : t \in requires[s]}

\* the steps a step requires directly or transitively
RECURSIVE RequiredWithin(_, _)
RequiredWithin(s, n) ==
    IF n = 0
    THEN {}
    ELSE RequiredSteps(s) \cup
         UNION {RequiredWithin(t, n - 1) : t \in RequiredSteps(s)}

Ancestors(s) == RequiredWithin(s, Cardinality(Steps))

\* a check that rejects only a step that requires itself directly
Acyclic_SelfOnly == \A s \in Steps : s \notin RequiredSteps(s)

\* the graphs the graph builder accepts: no step requires itself, directly or
\* transitively
Acyclic == \A s \in Steps : s \notin Ancestors(s)

TerminalStates == {"Succeeded", "Failed", "Skipped"}
StepStates == {"Pending", "Runnable", "Running"} \cup TerminalStates

\* a pool with one worker more than the parallelism limit
Workers_OneMore == 1..(parallelism + 1)

\* the worker pool
Workers == 1..parallelism

\* the graph was built and is being executed: every step has a state
Executing == DOMAIN state = Steps

AllTerminal == \A s \in Steps : state[s] \in TerminalStates

\* the image streams the client answers with while the graph is executed: an
\* empty one, and one in which the promoted image is built
ExecutorImageStreams ==
    {NoImageStream,
     [Status |-> [Tags |-> <<[Tag |-> TagA,
                              Items |-> <<[DockerImageReference |-> InternalReference]>>]>>,
                  PublicDockerImageRepository |-> <<"p", "/", "n">>]]}

\* the promotion step of the graph promotes one image; nothing has been called
InitPromotionInGraph ==
    /\ configuration = ReleaseBuildConfig(<<[To |-> TagA, Optional |-> FALSE]>>, <<>>,
           PromotionConfig(FALSE, [Name |-> <<"n">>, Tag |-> <<>>], <<>>, EmptyMap,
                           FALSE, <<>>))
    /\ requiredImages = {}
    /\ NothingCalled
    /\ reference = <<>>
    /\ repository = <<>>

InitExecutor ==
    /\ InitPromotionInGraph
    /\ \E r \in [PlainSteps -> SUBSET Links] :
          requires = [s \in Steps |-> IF s = PromotionStepName
                                      THEN promotionRequires
                                      ELSE r[s]]
    /\ Acyclic
    /\ parallelism \in 1..MaxParallelism
    /\ state = [s \in Steps |-> "Pending"]
    /\ queue = <<>>
    /\ worker = [w \in Workers |-> "idle"]
    /\ runCount = [s \in Steps |-> 0]
    /\ NotReported
    /\ NoGsm

\* a step that requires a failed or a skipped step cannot run any more
Broken_FailedOnly(s) == \E t \in RequiredSteps(s) : state[t] = "Failed"

Broken(s) == \E t \in RequiredSteps(s) : state[t] \in {"Failed", "Skipped"}

\* a step whose requirements are met when one of the steps it requires has succeeded
Satisfied_Any(s) ==
    RequiredSteps(s) # {} => \E t \in RequiredSteps(s) : state[t] = "Succeeded"

\* every step the step requires has succeeded
Satisfied(s) == \A t \in RequiredSteps(s) : state[t] = "Succeeded"

\* a pending step whose requirements have all succeeded joins the runnable queue
MakeRunnable(s) ==
    /\ Executing
    /\ runResult = "none"
    /\ state[s] = "Pending"
    /\ Satisfied(s)
    /\ state' = [state EXCEPT ![s] = "Runnable"]
    /\ queue' = Append(queue, s)
    /\ UNCHANGED <<requires, parallelism, worker, runCount>>
    /\ UNCHANGED <<inputVars, pc, toPromoteVars, evals, runVars, refVars, reportVars,
                   gsmVars>>

\* a pending step that requires a failed or skipped step is skipped
SkipStep(s) ==
    /\ Executing
    /\ runResult = "none"
    /\ state[s] = "Pending"
    /\ Broken(s)
    /\ state' = [state EXCEPT ![s] = "Skipped"]
    /\ UNCHANGED <<requires, parallelism, queue, worker, runCount>>
    /\ UNCHANGED <<inputVars, pc, toPromoteVars, evals, runVars, refVars, reportVars,
                   gsmVars>>

\* a worker that takes the next runnable step and leaves it in the queue
TakeStep_NoPop(w) ==
    /\ Executing
    /\ runResult = "none"
    /\ ~cancelled
    /\ worker[w] = "idle"
    /\ queue # <<>>
    /\ state' = [state EXCEPT ![Head(queue)] = "Running"]
    /\ worker' = [worker EXCEPT ![w] = Head(queue)]
    /\ runCount' = [runCount EXCEPT ![Head(queue)] = @ + 1]
    /\ queue' = queue
    /\ UNCHANGED <<requires, parallelism>>
    /\ UNCHANGED <<inputVars, pc, toPromoteVars, evals, runVars, refVars, reportVars,
                   gsmVars>>

\* a worker that takes no step once a step has failed
TakeStep_StopOnFailure(w) ==
    /\ Executing
    /\ runResult = "none"
    /\ ~cancelled
    /\ worker[w] = "idle"
    /\ queue # <<>>
    /\ \A t \in Steps : state[t] # "Failed"
    /\ state' = [state EXCEPT ![Head(queue)] = "Running"]
    /\ worker' = [worker EXCEPT ![w] = Head(queue)]
    /\ runCount' = [runCount EXCEPT ![Head(queue)] = @ + 1]
    /\ queue' = Tail(queue)
    /\ UNCHANGED <<requires, parallelism>>
    /\ UNCHANGED <<inputVars, pc, toPromoteVars, evals, runVars, refVars, reportVars,
                   gsmVars>>

\* a worker that keeps pulling steps after the run was cancelled
TakeStep_IgnoreCancel(w) ==
    /\ Executing
    /\ runResult = "none"
    /\ worker[w] = "idle"
    /\ queue # <<>>
    /\ state' = [state EXCEPT ![Head(queue)] = "Running"]
    /\ worker' = [worker EXCEPT ![w] = Head(queue)]
    /\ runCount' = [runCount EXCEPT ![Head(queue)] = @ + 1]
    /\ queue' = Tail(queue)
    /\ UNCHANGED <<requires, parallelism>>
    /\ UNCHANGED <<inputVars, pc, toPromoteVars, evals, runVars, refVars, reportVars,
                   gsmVars>>

\* an idle worker pulls the next runnable step, marks it Running and invokes Run
TakeStep(w) ==
    /\ Executing
    /\ runResult = "none"
    /\ ~cancelled
    /\ worker[w] = "idle"
    /\ queue # <<>>
    /\ state' = [state EXCEPT ![Head(queue)] = "Running"]
    /\ worker' = [worker EXCEPT ![w] = Head(queue)]
    /\ runCount' = [runCount EXCEPT ![Head(queue)] = @ + 1]
    /\ queue' = Tail(queue)
    /\ UNCHANGED <<requires, parallelism>>
    /\ UNCHANGED <<inputVars, pc, toPromoteVars, evals, runVars, refVars, reportVars,
                   gsmVars>>

\* Run of a step other than promotion returns, with an error or without, and the
\* worker records the terminal state
FinishStep(w) ==
    /\ Executing
    /\ worker[w] \in PlainSteps
    /\ \E result \in {"Succeeded", "Failed"} :
          state' = [state EXCEPT ![worker[w]] = result]
    /\ worker' = [worker EXCEPT ![w] = "idle"]
    /\ UNCHANGED <<requires, parallelism, queue, runCount>>
    /\ UNCHANGED <<inputVars, pc, toPromoteVars, evals, runVars, refVars, reportVars,
                   gsmVars>>

\* promotionStep.Run returns and the worker records the terminal state
FinishPromotion(w) ==
    /\ Executing
    /\ worker[w] = PromotionStepName
    /\ runWith(ExecutorImageStreams)
    /\ state' = [state EXCEPT ![PromotionStepName] =
                    IF runErr'.isNil THEN "Succeeded" ELSE "Failed"]
    /\ worker' = [worker EXCEPT ![w] = "idle"]
    /\ UNCHANGED <<requires, parallelism, queue, runCount, reportVars>>

\* a run that fails only when its last step failed
overallResult_PromotionOnly ==
    IF state[PromotionStepName] = "Failed" THEN "Failed" ELSE "Succeeded"

\* the result of a run that was not cancelled: Failed if any step failed
overallResult ==
    IF \E s \in Steps : state[s] = "Failed" THEN "Failed" ELSE "Succeeded"

\* the Executor finishes and reports the run: when every step is terminal, or,
\* after cancellation, when no step is in flight any more
Report ==
    /\ Executing
    /\ runResult = "none"
    /\ IF cancelled
       THEN /\ \A s \in Steps : state[s] # "Running"
            /\ runResult' = "Failed"
            /\ runReason' = "Cancelled"
       ELSE /\ AllTerminal
            /\ runResult' = overallResult
            /\ runReason' = IF overallResult = "Failed" THEN "StepFailed" ELSE ""
    /\ UNCHANGED <<requires, parallelism, state, queue, worker, runCount, cancelled>>
    /\ UNCHANGED <<inputVars, pc, toPromoteVars, evals, runVars, refVars, gsmVars>>

\* the run's cancellation signal is raised
Cancel ==
    /\ Executing
    /\ runResult = "none"
    /\ ~cancelled
    /\ cancelled' = TRUE
    /\ UNCHANGED <<requires, parallelism, state, queue, worker, runCount, runResult,
                   runReason>>
    /\ UNCHANGED <<inputVars, pc, toPromoteVars, evals, runVars, refVars, gsmVars>>

NextExecutor ==
    \/ \E s \in Steps : MakeRunnable(s)
    \/ \E s \in Steps : SkipStep(s)
    \/ \E w \in Workers : TakeStep(w)
    \/ \E w \in Workers : FinishStep(w)
    \/ \E w \in Workers : FinishPromotion(w)
    \/ Report

SpecExecutor == InitExecutor /\ [][NextExecutor]_vars

\* the Executor keeps scheduling, its workers keep pulling from the queue, and
\* every Run returns
FairExecutor ==
    /\ \A s \in Steps : WF_vars(MakeRunnable(s)) /\ WF_vars(SkipStep(s))
    /\ \A w \in 1..MaxParallelism :
          /\ WF_vars(w \in Workers /\ TakeStep(w))
          /\ WF_vars(w \in Workers /\ FinishStep(w))
          /\ WF_vars(w \in Workers /\ FinishPromotion(w))

SpecExecutorFair == SpecExecutor /\ FairExecutor

\* executions in which the cancellation signal may be raised at any time
NextExecutorCancel == NextExecutor \/ Cancel

SpecExecutorCancel ==
    InitExecutor /\ [][NextExecutorCancel]_vars /\ FairExecutor /\ WF_vars(Report)

----------------------------------------------------------------------------
(* The Graph Builder, followed by the Executor *)

\* the requested steps with any requires relation among them, cyclic or not
InitGraphBuilder ==
    /\ InitPromotionInGraph
    /\ \E r \in [PlainSteps -> SUBSET Links] :
          requires = [s \in Steps |-> IF s = PromotionStepName
                                      THEN promotionRequires
                                      ELSE r[s]]
    /\ parallelism \in 1..MaxParallelism
    /\ state = <<>>
    /\ queue = <<>>
    /\ worker = <<>>
    /\ runCount = <<>>
    /\ NotReported
    /\ NoGsm

\* the Graph Builder: a graph without a cycle is handed to the Executor, a graph
\* with a cycle fails the run with CyclicDependency
BuildGraph ==
    /\ state = <<>>
    /\ runResult = "none"
    /\ IF Acyclic
       THEN /\ state' = [s \in Steps |-> "Pending"]
            /\ worker' = [w \in Workers |-> "idle"]
            /\ runCount' = [s \in Steps |-> 0]
            /\ UNCHANGED <<runResult, runReason>>
       ELSE /\ runResult' = "Failed"
            /\ runReason' = "CyclicDependency"
            /\ UNCHANGED <<state, worker, runCount>>
    /\ UNCHANGED <<requires, parallelism, queue, cancelled>>
    /\ UNCHANGED <<inputVars, pc, toPromoteVars, evals, runVars, refVars, gsmVars>>

NextGraphBuilder == BuildGraph \/ NextExecutor

SpecGraphBuilder ==
    InitGraphBuilder /\ [][NextGraphBuilder]_vars /\ WF_vars(BuildGraph) /\ FairExecutor

----------------------------------------------------------------------------
(* Secret management (pkg/gsm-secrets/execution.go): secret names *)

\* execution.go:27
DotReplacementString == <<"-", "-", "d", "o", "t", "-", "-">>

\* execution.go:28
UnderscoreReplacementString == <<"-", "-", "u", "-", "-">>

\* strings.ReplaceAll(s, old, new) for a non-empty old: the occurrences of old
\* are replaced from the left, without overlap
RECURSIVE ReplaceAll(_, _, _)
ReplaceAll(s, old, new) ==
    LET i == Index(s, old)
    IN IF i = 0 THEN s
       ELSE SubSeq(s, 1, i - 1) \o new \o
            ReplaceAll(SubSeq(s, i + Len(old), Len(s)), old, new)

\* NormalizeSecretName that leaves underscores alone
NormalizeSecretName_DotsOnly(name) == ReplaceAll(name, <<".">>, DotReplacementString)

\* execution.go:34-38
NormalizeSecretName(name) ==
    LET dotsReplaced == ReplaceAll(name, <<".">>, DotReplacementString)
    IN ReplaceAll(dotsReplaced, <<"_">>, UnderscoreReplacementString)

\* the parts secret names are built from: the two forbidden characters, other
\* characters, and the two replacement texts
SecretNameParts ==
    {<<".">>, <<"_">>, <<"a">>, <<"-">>, DotReplacementString, UnderscoreReplacementString}

\* everything but the secret management is at rest
OnlyGsm ==
    /\ configuration = ReleaseBuildConfig(<<>>, <<>>,
           PromotionConfig(FALSE, [Name |-> <<"n">>, Tag |-> <<>>], <<>>, EmptyMap,
                           FALSE, <<>>))
    /\ requiredImages = {}
    /\ NothingCalled
    /\ reference = <<>>
    /\ repository = <<>>
    /\ requires = <<>>
    /\ parallelism = 0
    /\ state = <<>>
    /\ queue = <<>>
    /\ worker = <<>>
    /\ runCount = <<>>
    /\ NotReported

InitNormalize ==
    /\ OnlyGsm
    /\ \E parts \in SeqUpTo(SecretNameParts, MaxSecretNameParts) :
          secretName = Concat(parts)
    /\ normalized = <<>>
    /\ backoff = [Steps |-> 0]
    /\ iam = <<>>
    /\ sm = <<>>
    /\ calls = <<>>
    /\ actions = <<>>
    /\ keyData = <<>>
    /\ keyErr = FALSE
    /\ secretErr = FALSE

NormalizeCall ==
    /\ pc = "ready"
    /\ pc' = "normalized"
    /\ normalized' = NormalizeSecretName(secretName)
    /\ UNCHANGED <<inputVars, toPromoteVars, evals, runVars, refVars, execVars>>
    /\ UNCHANGED <<secretName, backoff, iam, sm, calls, actions, keyData, keyErr,
                   secretErr>>

SpecNormalize == InitNormalize /\ [][NormalizeCall]_vars

----------------------------------------------------------------------------
(* Secret management: generating a service account key *)

\* what a client call can answer: success, a gRPC NotFound status, a
\* googleapi.Error with HTTP code 404, or another error
ClientAnswers == {"ok", "grpcNotFound", "http404", "other"}

\* isServiceAccountNotFoundError that knows gRPC statuses only
isServiceAccountNotFoundError_GrpcOnly(err) == err = "grpcNotFound"

\* execution.go:200-215
isServiceAccountNotFoundError(err) == err \in {"grpcNotFound", "http404"}

\* the calls of one operation on one resource among the calls made so far
CallsOf(log, op, arg) == {i \in 1..Len(log) : log[i].op = op /\ log[i].arg = arg}

\* the answer of the client to the next call of an operation on a resource: the
\* answers are given call by call, and a call beyond the given ones fails
NextAnswer(script, log, op, arg) ==
    LET k == Cardinality(CallsOf(log, op, arg)) + 1
    IN IF k <= Len(script) THEN script[k] ELSE "other"

\* one client call appended to the calls made so far
Called(log, op, arg, answer) == Append(log, [op |-> op, arg |-> arg, answer |-> answer])

\* polling that asks once more after the steps of the backoff are used up
RECURSIVE pollServiceAccount_OneMore(_, _, _, _)
pollServiceAccount_OneMore(client, log, saEmail, steps) ==
    LET answer == NextAnswer(client.getAccount[saEmail], log, "GetServiceAccount", saEmail)
        after == Called(log, "GetServiceAccount", saEmail, answer)
    IN IF answer = "ok" THEN [log |-> after, err |-> "nil"]
       ELSE IF isServiceAccountNotFoundError(answer) /\ steps > 0
            THEN pollServiceAccount_OneMore(client, after, saEmail, steps - 1)
            ELSE [log |-> after, err |-> answer]

\* execution.go:233-251, retry.OnError(backoff, isServiceAccountNotFoundError, fn):
\* GetServiceAccount is called until it succeeds, fails with an error that is
\* not a not-found error, or the steps of the backoff are used up
RECURSIVE pollServiceAccount(_, _, _, _)
pollServiceAccount(client, log, saEmail, steps) ==
    LET answer == NextAnswer(client.getAccount[saEmail], log, "GetServiceAccount", saEmail)
        after == Called(log, "GetServiceAccount", saEmail, answer)
    IN IF answer = "ok" THEN [log |-> after, err |-> "nil"]
       ELSE IF isServiceAccountNotFoundError(answer) /\ steps > 1
            THEN pollServiceAccount(client, after, saEmail, steps - 1)
            ELSE [log |-> after, err |-> answer]

\* the private key data of the key a CreateServiceAccountKey call made: which
\* account, and which call
PrivateKeyData(log, saEmail) ==
    <<saEmail, Cardinality(CallsOf(log, "CreateServiceAccountKey", saEmail))>>

\* key generation that retries however the first call failed
generateServiceAccountKeyWithBackoff_RetryAll(client, log, saEmail, steps) ==
    LET first == NextAnswer(client.createKey[saEmail], log, "CreateServiceAccountKey", saEmail)
        log1 == Called(log, "CreateServiceAccountKey", saEmail, first)
    IN IF first # "ok"
       THEN LET polled == pollServiceAccount(client, log1, saEmail, steps)
                second == NextAnswer(client.createKey[saEmail], polled.log,
                                     "CreateServiceAccountKey", saEmail)
                log2 == Called(polled.log, "CreateServiceAccountKey", saEmail, second)
            IN IF polled.err # "nil"
               THEN [log |-> polled.log, data |-> <<>>, err |-> TRUE]
               ELSE IF second # "ok"
                    THEN [log |-> log2, data |-> <<>>, err |-> TRUE]
                    ELSE [log |-> log2, data |-> PrivateKeyData(log2, saEmail), err |-> FALSE]
       ELSE [log |-> log1, data |-> PrivateKeyData(log1, saEmail), err |-> FALSE]

\* execution.go:221-270
generateServiceAccountKeyWithBackoff(client, log, saEmail, steps) ==
    LET first == NextAnswer(client.createKey[saEmail], log, "CreateServiceAccountKey", saEmail)
        log1 == Called(log, "CreateServiceAccountKey", saEmail, first)
    IN IF first # "ok" /\ isServiceAccountNotFoundError(first)
       THEN LET polled == pollServiceAccount(client, log1, saEmail, steps)
                second == NextAnswer(client.createKey[saEmail], polled.log,
                                     "CreateServiceAccountKey", saEmail)
                log2 == Called(polled.log, "CreateServiceAccountKey", saEmail, second)
            IN IF polled.err # "nil"
               THEN [log |-> polled.log, data |-> <<>>, err |-> TRUE]
               ELSE IF second # "ok"
                    THEN [log |-> log2, data |-> <<>>, err |-> TRUE]
                    ELSE [log |-> log2, data |-> PrivateKeyData(log2, saEmail), err |-> FALSE]
       ELSE IF first # "ok"
            THEN [log |-> log1, data |-> <<>>, err |-> TRUE]
            ELSE [log |-> log1, data |-> PrivateKeyData(log1, saEmail), err |-> FALSE]

\* execution.go:191-197, gcpServiceAccountBackoff.Steps
gcpServiceAccountBackoffSteps == 3

\* execution.go:217-219
GenerateServiceAccountKey(client, log, saEmail) ==
    generateServiceAccountKeyWithBackoff(client, log, saEmail, gcpServiceAccountBackoffSteps)

\* the service account the key is generated for
TestEmail == "sa@test"

InitGenerateKey ==
    /\ OnlyGsm
    /\ secretName = <<>>
    /\ normalized = <<>>
    /\ backoff \in [Steps : 1..MaxBackoffSteps]
    /\ \E createKey \in SeqUpTo(ClientAnswers, MaxCreateKeyAnswers) :
       \E getAccount \in SeqUpTo(ClientAnswers, MaxGetAccountAnswers) :
          iam = [createKey |-> [e \in {TestEmail} |-> createKey],
                 getAccount |-> [e \in {TestEmail} |-> getAccount]]
    /\ sm = <<>>
    /\ calls = <<>>
    /\ actions = <<>>
    /\ keyData = <<>>
    /\ keyErr = FALSE
    /\ secretErr = FALSE

GenerateKeyCall ==
    /\ pc = "ready"
    /\ pc' = "generated"
    /\ LET result == generateServiceAccountKeyWithBackoff(iam, calls, TestEmail, backoff.Steps)
       IN /\ calls' = result.log
          /\ keyData' = result.data
          /\ keyErr' = result.err
    /\ UNCHANGED <<inputVars, toPromoteVars, evals, runVars, refVars, execVars>>
    /\ UNCHANGED <<secretName, normalized, backoff, iam, sm, actions, secretErr>>

SpecGenerateKey == InitGenerateKey /\ [][GenerateKeyCall]_vars

----------------------------------------------------------------------------
(* Secret management: creating service accounts *)

\* the secret collections
Collections == {"c1", "c2"}

\* GetUpdaterSASecretName(collection)
GetUpdaterSASecretName(collection) == collection \o "__updater-service-account"

\* the name of the index secret of a collection
GetIndexSecretName(collection) == collection \o "____index"

\* GetUpdaterSAEmail(collection, config)
GetUpdaterSAEmail(collection) == collection \o "-updater@sa"

\* GetUpdaterSAId(collection)
GetUpdaterSAId(collection) == collection \o "-updater"

SecretTypeSA == "service-account"
SecretTypeIndex == "index"

\* GCPSecret: the fields the execution reads and writes
GCPSecret(name, type, collection, payload) ==
    [Name |-> name, Type |-> type, Collection |-> collection, Payload |-> payload]

\* the zero value of GCPSecret, which reading a missing map key gives
ZeroGCPSecret == GCPSecret("", "", "", <<>>)

\* ServiceAccountInfo of the updater service account of a collection
ServiceAccountInfo(collection) ==
    [ID |-> GetUpdaterSAId(collection),
     Email |-> GetUpdaterSAEmail(collection),
     Collection |-> collection]

\* reading a Go map: the zero value for a missing key
MapGet(m, key, zero) == IF key \in DOMAIN m THEN m[key] ELSE zero

\* one round of the loop that keeps the secret when the account cannot be created
createServiceAccount_KeepSecret(a, client, log, sa) ==
    LET secretName_ == GetUpdaterSASecretName(sa.Collection)
        answer == NextAnswer(client.createSA[sa.ID], log, "CreateServiceAccount", sa.ID)
        log1 == Called(log, "CreateServiceAccount", sa.ID, answer)
        key == GenerateServiceAccountKey(client, log1, sa.Email)
    IN IF answer # "ok"
       THEN [actions |-> a, log |-> log1]
       ELSE IF key.err
            THEN [actions |-> [a EXCEPT !.SecretsToCreate = MapDelete(@, secretName_)],
                  log |-> key.log]
            ELSE [actions |-> [a EXCEPT !.SecretsToCreate =
                                  MapPut(@, secretName_,
                                         [MapGet(@, secretName_, ZeroGCPSecret)
                                             EXCEPT !.Payload = key.data])],
                  log |-> key.log]

\* execution.go:160-186, one round of the loop of CreateServiceAccounts
createServiceAccount(a, client, log, sa) ==
    LET secretName_ == GetUpdaterSASecretName(sa.Collection)
        answer == NextAnswer(client.createSA[sa.ID], log, "CreateServiceAccount", sa.ID)
        log1 == Called(log, "CreateServiceAccount", sa.ID, answer)
        key == GenerateServiceAccountKey(client, log1, sa.Email)
    IN IF answer # "ok"
       THEN [actions |-> [a EXCEPT !.SecretsToCreate = MapDelete(@, secretName_)],
             log |-> log1]
       ELSE IF key.err
            THEN [actions |-> [a EXCEPT !.SecretsToCreate = MapDelete(@, secretName_)],
                  log |-> key.log]
            ELSE [actions |-> [a EXCEPT !.SecretsToCreate =
                                  MapPut(@, secretName_,
                                         [MapGet(@, secretName_, ZeroGCPSecret)
                                             EXCEPT !.Payload = key.data])],
                  log |-> key.log]

\* execution.go:158-188, with the keys of SAsToCreate visited in the given order
RECURSIVE CreateServiceAccounts(_, _, _, _)
CreateServiceAccounts(a, client, log, order) ==
    IF order = <<>>
    THEN [actions |-> a, log |-> log]
    ELSE LET round == createServiceAccount(a, client, log, a.SAsToCreate[Head(order)])
         IN CreateServiceAccounts(round.actions, client, round.log, Tail(order))

\* the answers of CreateServiceAccountKey and GetServiceAccount for one account
CreateKeyScripts == {<<"ok">>, <<"other">>, <<"grpcNotFound", "ok">>}
GetAccountScripts == {<<"ok">>, <<"http404", "http404", "http404">>}
CreateAccountScripts == {<<"ok">>, <<"other">>}

\* the IAM clients: the answers for each account
IAMClients ==
    [createSA : [{GetUpdaterSAId(c) : c \in Collections} -> CreateAccountScripts],
     createKey : [{GetUpdaterSAEmail(c) : c \in Collections} -> CreateKeyScripts],
     getAccount : [{GetUpdaterSAEmail(c) : c \in Collections} -> GetAccountScripts]]

\* the service accounts to create: the updater accounts of some collections,
\* keyed by collection
SAsToCreateValues ==
    {[c \in D |-> ServiceAccountInfo(c)] : D \in SUBSET Collections}

\* the updater secret of a collection as the diff lists it: without a payload, or
\* with a payload already set
UpdaterSecrets(c) ==
    {GCPSecret(GetUpdaterSASecretName(c), SecretTypeSA, c, payload)
        : payload \in {<<>>, <<"old">>}}

\* the index secret of a collection
IndexSecret(c) == GCPSecret(GetIndexSecretName(c), SecretTypeIndex, c, <<>>)

\* the secrets to create, keyed by name: for each collection its updater secret
\* or none, and the index secret of the first collection or none
SecretsToCreateValues ==
    {[n \in {s.Name : s \in S} |-> CHOOSE s \in S : s.Name = n]
       : S \in {S \in SUBSET (UNION {UpdaterSecrets(c) : c \in Collections}
                               \cup {IndexSecret("c1")}) :
                  \A s \in S : \A t \in S : s.Name = t.Name => s = t}}

InitCreateServiceAccounts ==
    /\ OnlyGsm
    /\ secretName = <<>>
    /\ normalized = <<>>
    /\ backoff = [Steps |-> gcpServiceAccountBackoffSteps]
    /\ iam \in IAMClients
    /\ sm = <<>>
    /\ calls = <<>>
    /\ \E sas \in SAsToCreateValues : \E secrets \in SecretsToCreateValues :
          actions = [SAsToCreate |-> sas, SecretsToCreate |-> secrets]
    /\ keyData = <<>>
    /\ keyErr = FALSE
    /\ secretErr = FALSE

CreateServiceAccountsCall ==
    /\ pc = "ready"
    /\ pc' = "accountsCreated"
    /\ \E order \in Orders(DOMAIN actions.SAsToCreate) :
          LET result == CreateServiceAccounts(actions, iam, calls, order)
          IN /\ actions' = result.actions
             /\ calls' = result.log
    /\ UNCHANGED <<inputVars, toPromoteVars, evals, runVars, refVars, execVars>>
    /\ UNCHANGED <<secretName, normalized, backoff, iam, sm, keyData, keyErr,
                   secretErr>>

SpecCreateServiceAccounts == InitCreateServiceAccounts /\ [][CreateServiceAccountsCall]_vars

----------------------------------------------------------------------------
(* Secret management: creating secrets *)

\* a client call that carries a payload, appended to the calls made so far
CalledWith(log, op, arg, answer, payload) ==
    Append(log, [op |-> op, arg |-> arg, answer |-> answer, payload |-> payload])

\* CreateOrUpdateSecret that adds a version although the secret was not created
CreateOrUpdateSecret_AddAnyway(client, log, name, payload) ==
    LET got == NextAnswer(client.getSecret[name], log, "GetSecret", name)
        log1 == Called(log, "GetSecret", name, got)
        created == NextAnswer(client.createSecret[name], log1, "CreateSecret", name)
        log2 == IF got # "ok" THEN Called(log1, "CreateSecret", name, created) ELSE log1
        added == NextAnswer(client.addVersion[name], log2, "AddSecretVersion", name)
        log3 == CalledWith(log2, "AddSecretVersion", name, added, payload)
    IN [log |-> log3, err |-> (got # "ok" /\ created # "ok") \/ added # "ok"]

\* execution.go:42-75
CreateOrUpdateSecret(client, log, name, payload) ==
    LET got == NextAnswer(client.getSecret[name], log, "GetSecret", name)
        log1 == Called(log, "GetSecret", name, got)
        created == NextAnswer(client.createSecret[name], log1, "CreateSecret", name)
        log2 == IF got # "ok" THEN Called(log1, "CreateSecret", name, created) ELSE log1
        added == NextAnswer(client.addVersion[name], log2, "AddSecretVersion", name)
        log3 == CalledWith(log2, "AddSecretVersion", name, added, payload)
    IN IF got # "ok" /\ created # "ok"
       THEN [log |-> log2, err |-> TRUE]
       ELSE [log |-> log3, err |-> added # "ok"]

\* execution.go:287, the payload of an index secret
IndexPayload == <<"- updater-service-account">>

\* one round of the loop that generates a key for every service-account secret
createSecret_AlwaysNewKey(a, secretsClient, iamClient, log, name) ==
    LET s == a.SecretsToCreate[name]
        needsKey == s.Type = SecretTypeSA
        key == GenerateServiceAccountKey(iamClient, log, GetUpdaterSAEmail(s.Collection))
        log1 == IF needsKey THEN key.log ELSE log
        s1 == IF needsKey THEN [s EXCEPT !.Payload = key.data] ELSE s
        s2 == IF s1.Type = SecretTypeIndex THEN [s1 EXCEPT !.Payload = IndexPayload] ELSE s1
        written == CreateOrUpdateSecret(secretsClient, log1, s2.Name, s2.Payload)
    IN IF needsKey /\ key.err
       THEN [actions |-> a, log |-> key.log]
       ELSE [actions |-> [a EXCEPT !.SecretsToCreate[name] = s2], log |-> written.log]

\* one round of the loop that writes the secret although no key could be generated
createSecret_WriteAnyway(a, secretsClient, iamClient, log, name) ==
    LET s == a.SecretsToCreate[name]
        needsKey == s.Type = SecretTypeSA /\ Len(s.Payload) = 0
        key == GenerateServiceAccountKey(iamClient, log, GetUpdaterSAEmail(s.Collection))
        log1 == IF needsKey THEN key.log ELSE log
        s1 == IF needsKey THEN [s EXCEPT !.Payload = key.data] ELSE s
        s2 == IF s1.Type = SecretTypeIndex THEN [s1 EXCEPT !.Payload = IndexPayload] ELSE s1
        written == CreateOrUpdateSecret(secretsClient, log1, s2.Name, s2.Payload)
    IN [actions |-> [a EXCEPT !.SecretsToCreate[name] = s2], log |-> written.log]

\* execution.go:273-298, one round of the loop of CreateSecrets
createSecret(a, secretsClient, iamClient, log, name) ==
    LET s == a.SecretsToCreate[name]
        needsKey == s.Type = SecretTypeSA /\ Len(s.Payload) = 0
        key == GenerateServiceAccountKey(iamClient, log, GetUpdaterSAEmail(s.Collection))
        log1 == IF needsKey THEN key.log ELSE log
        s1 == IF needsKey THEN [s EXCEPT !.Payload = key.data] ELSE s
        s2 == IF s1.Type = SecretTypeIndex THEN [s1 EXCEPT !.Payload = IndexPayload] ELSE s1
        written == CreateOrUpdateSecret(secretsClient, log1, s2.Name, s2.Payload)
    IN IF needsKey /\ key.err
       THEN [actions |-> a, log |-> key.log]
       ELSE [actions |-> [a EXCEPT !.SecretsToCreate[name] = s2], log |-> written.log]

\* execution.go:272-299, with the keys of SecretsToCreate visited in the given order
RECURSIVE CreateSecrets(_, _, _, _, _)
CreateSecrets(a, secretsClient, iamClient, log, order) ==
    IF order = <<>>
    THEN [actions |-> a, log |-> log]
    ELSE LET round == createSecret(a, secretsClient, iamClient, log, Head(order))
         IN CreateSecrets(round.actions, secretsClient, iamClient, round.log, Tail(order))

\* the answers of the Secret Manager client for one secret: GetSecret finds the
\* secret, reports it missing, or fails otherwise
GetSecretScripts == {<<"ok">>, <<"grpcNotFound">>, <<"other">>}
WriteSecretScripts == {<<"ok">>, <<"other">>}

\* the Secret Manager clients: the answers for each of the given secrets
SecretManagerClients(secretNames) ==
    [getSecret : [secretNames -> GetSecretScripts],
     createSecret : [secretNames -> WriteSecretScripts],
     addVersion : [secretNames -> WriteSecretScripts]]

\* the IAM clients CreateSecrets meets: key creation succeeds or fails
KeyClients ==
    [createSA : [{GetUpdaterSAId(c) : c \in Collections} -> {<<>>}],
     createKey : [{GetUpdaterSAEmail(c) : c \in Collections} -> {<<"ok">>, <<"other">>}],
     getAccount : [{GetUpdaterSAEmail(c) : c \in Collections} -> {<<>>}]]

InitCreateSecrets ==
    /\ OnlyGsm
    /\ secretName = <<>>
    /\ normalized = <<>>
    /\ backoff = [Steps |-> gcpServiceAccountBackoffSteps]
    /\ iam \in KeyClients
    /\ calls = <<>>
    /\ \E secrets \in SecretsToCreateValues :
          /\ actions = [SAsToCreate |-> EmptyMap, SecretsToCreate |-> secrets]
          /\ sm \in SecretManagerClients(DOMAIN secrets)
    /\ keyData = <<>>
    /\ keyErr = FALSE
    /\ secretErr = FALSE

CreateSecretsCall ==
    /\ pc = "ready"
    /\ pc' = "secretsCreated"
    /\ \E order \in Orders(DOMAIN actions.SecretsToCreate) :
          LET result == CreateSecrets(actions, sm, iam, calls, order)
          IN /\ actions' = result.actions
             /\ calls' = result.log
    /\ UNCHANGED <<inputVars, toPromoteVars, evals, runVars, refVars, execVars>>
    /\ UNCHANGED <<secretName, normalized, backoff, iam, sm, keyData, keyErr,
                   secretErr>>

SpecCreateSecrets == InitCreateSecrets /\ [][CreateSecretsCall]_vars

\* CreateOrUpdateSecret on its own: one secret to write, with or without payload
InitCreateOrUpdateSecret ==
    /\ OnlyGsm
    /\ secretName = <<>>
    /\ normalized = <<>>
    /\ backoff = [Steps |-> gcpServiceAccountBackoffSteps]
    /\ iam = <<>>
    /\ calls = <<>>
    /\ \E secret \in UNION {UpdaterSecrets(c) : c \in Collections} \cup {IndexSecret("c1")} :
          /\ actions = [SAsToCreate |-> EmptyMap,
                        SecretsToCreate |-> [n \in {secret.Name} |-> secret]]
          /\ sm \in SecretManagerClients({secret.Name})
    /\ keyData = <<>>
    /\ keyErr = FALSE
    /\ secretErr = FALSE

CreateOrUpdateSecretCall ==
    /\ pc = "ready"
    /\ pc' = "secretWritten"
    /\ \E name \in DOMAIN actions.SecretsToCreate :
          LET secret == actions.SecretsToCreate[name]
              result == CreateOrUpdateSecret(sm, calls, secret.Name, secret.Payload)
          IN /\ calls' = result.log
             /\ secretErr' = result.err
    /\ UNCHANGED <<inputVars, toPromoteVars, evals, runVars, refVars, execVars>>
    /\ UNCHANGED <<secretName, normalized, backoff, iam, sm, actions, keyData, keyErr>>

SpecCreateOrUpdateSecret == InitCreateOrUpdateSecret /\ [][CreateOrUpdateSecretCall]_vars

----------------------------------------------------------------------------
(* Secret management: executing the actions *)

\* the collections whose service accounts and secrets are obsolete
ObsoleteCollections == {"o1", "o2"}

\* adminpb.ListServiceAccountKeysRequest_USER_MANAGED and _SYSTEM_MANAGED
KeyTypeUserManaged == "USER_MANAGED"
KeyTypeSystemManaged == "SYSTEM_MANAGED"

\* adminpb.ServiceAccountKey: the fields the revocation reads
ServiceAccountKey(name, keyType) == [Name |-> name, KeyType |-> keyType]

\* the keys an account can have: two made by users and one made by the system
UserKey(email) == ServiceAccountKey(email \o "/keys/user", KeyTypeUserManaged)
OtherUserKey(email) == ServiceAccountKey(email \o "/keys/user2", KeyTypeUserManaged)
SystemKey(email) == ServiceAccountKey(email \o "/keys/system", KeyTypeSystemManaged)

\* the resource the IAM policy is set on
ProjectResource == "projects/p"

\* a.ConsolidatedIAMPolicy: nil, or a policy
NilPolicy == [isNil |-> TRUE, Bindings |-> <<>>]
SomePolicy == [isNil |-> FALSE, Bindings |-> <<"binding">>]

\* what SetIamPolicy can answer: success, a FailedPrecondition status, another error
PolicyAnswers == {"ok", "failedPrecondition", "other"}

\* the inner loop that revokes every listed key, whatever its type
RECURSIVE revokeKeys_AllTypes(_, _, _)
revokeKeys_AllTypes(client, log, keys) ==
    IF keys = <<>> THEN log
    ELSE LET key == Head(keys)
             answer == NextAnswer(client.deleteKey[key.Name], log,
                                  "DeleteServiceAccountKey", key.Name)
         IN revokeKeys_AllTypes(client,
                Called(log, "DeleteServiceAccountKey", key.Name, answer), Tail(keys))

\* execution.go:357-368, the loop over the keys listed for one account
RECURSIVE revokeKeys(_, _, _)
revokeKeys(client, log, keys) ==
    IF keys = <<>> THEN log
    ELSE LET key == Head(keys)
             answer == NextAnswer(client.deleteKey[key.Name], log,
                                  "DeleteServiceAccountKey", key.Name)
         IN IF key.KeyType = KeyTypeUserManaged
            THEN revokeKeys(client,
                     Called(log, "DeleteServiceAccountKey", key.Name, answer), Tail(keys))
            ELSE revokeKeys(client, log, Tail(keys))

\* execution.go:345-371, with the keys of SAsToDelete visited in the given order
RECURSIVE RevokeObsoleteServiceAccountKeys(_, _, _, _)
RevokeObsoleteServiceAccountKeys(a, client, log, order) ==
    IF order = <<>> THEN log
    ELSE LET sa == a.SAsToDelete[Head(order)]
             resp == client.listKeys[sa.Email]
             log1 == Called(log, "ListServiceAccountKeys", sa.Email,
                            IF resp.err THEN "other" ELSE "ok")
         IN RevokeObsoleteServiceAccountKeys(a, client,
                IF resp.err THEN log1 ELSE revokeKeys(client, log1, resp.Keys),
                Tail(order))

\* execution.go:331-343, with the keys of SAsToDelete visited in the given order
RECURSIVE DeleteObsoleteServiceAccounts(_, _, _, _)
DeleteObsoleteServiceAccounts(a, client, log, order) ==
    IF order = <<>> THEN log
    ELSE LET sa == a.SAsToDelete[Head(order)]
             answer == NextAnswer(client.deleteSA[sa.Email], log,
                                  "DeleteServiceAccount", sa.Email)
         IN DeleteObsoleteServiceAccounts(a, client,
                Called(log, "DeleteServiceAccount", sa.Email, answer), Tail(order))

\* execution.go:318-329, with the keys of SecretsToDelete visited in the given order
RECURSIVE DeleteObsoleteSecrets(_, _, _, _)
DeleteObsoleteSecrets(a, client, log, order) ==
    IF order = <<>> THEN log
    ELSE LET secret == a.SecretsToDelete[Head(order)]
             answer == NextAnswer(client.deleteSecret[secret.Name], log,
                                  "DeleteSecret", secret.Name)
         IN DeleteObsoleteSecrets(a, client,
                Called(log, "DeleteSecret", secret.Name, answer), Tail(order))

\* execution.go:301-316: the call, and the error returned
ApplyPolicy(a, log, answer) ==
    [log |-> Called(log, "SetIamPolicy", ProjectResource, answer),
     err |-> IF answer = "ok" THEN "nil"
             ELSE IF answer = "failedPrecondition"
                  THEN "IAM policy update failed due to concurrent changes"
                  ELSE "failed to apply IAM policy"]

\* execution.go:119-124: the outcomes of the service account phase, one for each
\* order of the range over SAsToCreate
createAccountsPhase(a, iamClient, log) ==
    IF Cardinality(DOMAIN a.SAsToCreate) > 0
    THEN {CreateServiceAccounts(a, iamClient, log, order)
            : order \in Orders(DOMAIN a.SAsToCreate)}
    ELSE {[actions |-> a, log |-> log]}

\* execution.go:126-131: the outcomes of the secret phase, one for each order of
\* the range over SecretsToCreate
createSecretsPhase(a, secretsClient, iamClient, log) ==
    IF Cardinality(DOMAIN a.SecretsToCreate) > 0
    THEN {CreateSecrets(a, secretsClient, iamClient, log, order)
            : order \in Orders(DOMAIN a.SecretsToCreate)}
    ELSE {[actions |-> a, log |-> log]}

\* the policy phase that only logs a failure of ApplyPolicy
applyPolicyPhase_LogOnly(a, log, answers) ==
    IF ~a.ConsolidatedIAMPolicy.isNil
    THEN {[log |-> ApplyPolicy(a, log, answer).log, exited |-> FALSE] : answer \in answers}
    ELSE {[log |-> log, exited |-> FALSE]}

\* execution.go:133-140: the outcomes of the policy phase, one for each answer
\* of SetIamPolicy; logrus Fatal ends the process when ApplyPolicy fails
applyPolicyPhase(a, log, answers) ==
    IF ~a.ConsolidatedIAMPolicy.isNil
    THEN {[log |-> ApplyPolicy(a, log, answer).log,
           exited |-> ApplyPolicy(a, log, answer).err # "nil"] : answer \in answers}
    ELSE {[log |-> log, exited |-> FALSE]}

\* execution.go:142-148: the outcomes of the revocation of the keys followed by
\* the deletion of the accounts, one for each pair of orders of the two ranges
\* over SAsToDelete
deleteAccountsPhase(a, iamClient, log) ==
    IF Cardinality(DOMAIN a.SAsToDelete) > 0
    THEN {DeleteObsoleteServiceAccounts(a, iamClient,
              RevokeObsoleteServiceAccountKeys(a, iamClient, log, revocation), deletion)
            : revocation \in Orders(DOMAIN a.SAsToDelete),
              deletion \in Orders(DOMAIN a.SAsToDelete)}
    ELSE {log}

\* execution.go:150-155: the outcomes of the secret deletion, one for each order
\* of the range over SecretsToDelete
deleteSecretsPhase(a, secretsClient, log) ==
    IF Cardinality(DOMAIN a.SecretsToDelete) > 0
    THEN {DeleteObsoleteSecrets(a, secretsClient, log, order)
            : order \in Orders(DOMAIN a.SecretsToDelete)}
    ELSE {log}

\* execution.go:142-155, the two deletion phases after the policy phase
deletionPhases(a, iamClient, secretsClient, log) ==
    UNION {deleteSecretsPhase(a, secretsClient, accountsLog)
             : accountsLog \in deleteAccountsPhase(a, iamClient, log)}

\* the execution that creates the secrets before the service accounts
ExecuteActions_SecretsFirst(a, iamClient, secretsClient, policyAnswers, log) ==
    UNION {UNION {UNION {
        IF policy.exited
        THEN {[actions |-> accounts.actions, log |-> policy.log, exited |-> TRUE]}
        ELSE {[actions |-> accounts.actions, log |-> deleted, exited |-> FALSE]
                : deleted \in deletionPhases(accounts.actions, iamClient, secretsClient,
                                             policy.log)}
        : policy \in applyPolicyPhase(accounts.actions, accounts.log, policyAnswers)}
        : accounts \in createAccountsPhase(secrets.actions, iamClient, secrets.log)}
        : secrets \in createSecretsPhase(a, secretsClient, iamClient, log)}

\* execution.go:117-156.  The outcomes ExecuteActions can have, one for each
\* order of each range over a map and each answer of SetIamPolicy: the actions
\* as the two creation phases leave them, the client calls made, and whether the
\* process was ended.
ExecuteActions(a, iamClient, secretsClient, policyAnswers, log) ==
    UNION {UNION {UNION {
        IF policy.exited
        THEN {[actions |-> secrets.actions, log |-> policy.log, exited |-> TRUE]}
        ELSE {[actions |-> secrets.actions, log |-> deleted, exited |-> FALSE]
                : deleted \in deletionPhases(secrets.actions, iamClient, secretsClient,
                                             policy.log)}
        : policy \in applyPolicyPhase(secrets.actions, secrets.log, policyAnswers)}
        : secrets \in createSecretsPhase(accounts.actions, secretsClient, iamClient,
                                         accounts.log)}
        : accounts \in createAccountsPhase(a, iamClient, log)}

\* the service accounts to create or to delete: the updater accounts of some of
\* the given collections, keyed by collection
AccountsOf(collections) ==
    {[c \in D |-> ServiceAccountInfo(c)] : D \in SUBSET collections}

\* the secrets to create: none, the updater secret of the first collection
\* without a payload, alone or with the index secret
ExecuteSecretsToCreate ==
    {EmptyMap,
     [n \in {GetUpdaterSASecretName("c1")} |->
         GCPSecret(GetUpdaterSASecretName("c1"), SecretTypeSA, "c1", <<>>)],
     [n \in {GetUpdaterSASecretName("c1"), GetIndexSecretName("c1")} |->
         IF n = GetIndexSecretName("c1") THEN IndexSecret("c1")
         ELSE GCPSecret(GetUpdaterSASecretName("c1"), SecretTypeSA, "c1", <<>>)]}

\* the secrets to delete: some of the updater secrets of the obsolete collections
ExecuteSecretsToDelete ==
    {[n \in {GetUpdaterSASecretName(c) : c \in D} |->
         CHOOSE s \in {GCPSecret(GetUpdaterSASecretName(c), SecretTypeSA, c, <<>>) : c \in D}
            : s.Name = n]
       : D \in SUBSET ObsoleteCollections}

\* what ListServiceAccountKeys answers for an account: an error, or its keys
KeyListings(email) ==
    {[err |-> TRUE, Keys |-> <<>>],
     [err |-> FALSE, Keys |-> <<SystemKey(email), UserKey(email)>>],
     [err |-> FALSE, Keys |-> <<UserKey(email), OtherUserKey(email)>>]}

\* the names of the keys of the given accounts
KeyNames(emails) ==
    UNION {{UserKey(e).Name, OtherUserKey(e).Name, SystemKey(e).Name} : e \in emails}

\* the IAM clients ExecuteActions meets for given accounts to create and to
\* delete: creating an account succeeds or fails, creating a key succeeds,
\* listing the keys of an account fails or gives its keys, deleting the first
\* user key of an account and deleting an account succeed or fail
ExecuteIAMClients(created, deleted) ==
    {[createSA |-> createSA, createKey |-> createKey,
      getAccount |-> [e \in DOMAIN createKey |-> <<>>],
      listKeys |-> listKeys,
      deleteKey |-> [n \in KeyNames(DOMAIN listKeys) |->
                        IF \E e \in failing : n = UserKey(e).Name
                        THEN <<"other">> ELSE <<"ok">>],
      deleteSA |-> deleteSA]
       : createSA \in [{GetUpdaterSAId(c) : c \in created} -> CreateAccountScripts],
         createKey \in [{GetUpdaterSAEmail(c) : c \in Collections} -> {<<"ok", "ok">>}],
         listKeys \in {f \in [{GetUpdaterSAEmail(c) : c \in deleted} ->
                                 UNION {KeyListings(GetUpdaterSAEmail(c)) : c \in deleted}] :
                          \A e \in DOMAIN f : f[e] \in KeyListings(e)},
         failing \in SUBSET {GetUpdaterSAEmail(c) : c \in deleted},
         deleteSA \in [{GetUpdaterSAEmail(c) : c \in deleted} -> CreateAccountScripts]}

\* the Secret Manager clients ExecuteActions meets: no secret exists yet,
\* creating a secret succeeds or fails for all, and so does deleting one
ExecuteSecretClients(created, deleted) ==
    {[getSecret |-> [n \in created |-> <<"grpcNotFound">>],
      createSecret |-> [n \in created |-> write],
      addVersion |-> [n \in created |-> <<"ok">>],
      deleteSecret |-> [n \in deleted |-> delete]]
       : write \in WriteSecretScripts, delete \in WriteSecretScripts}

InitExecuteActions ==
    /\ OnlyGsm
    /\ secretName = <<>>
    /\ normalized = <<>>
    /\ backoff = [Steps |-> gcpServiceAccountBackoffSteps]
    /\ calls = <<>>
    /\ \E sasToCreate \in AccountsOf({"c1"}), secretsToCreate \in ExecuteSecretsToCreate,
          policy \in {NilPolicy, SomePolicy},
          sasToDelete \in AccountsOf(ObsoleteCollections),
          secretsToDelete \in ExecuteSecretsToDelete :
          /\ actions = [SAsToCreate |-> sasToCreate,
                        SecretsToCreate |-> secretsToCreate,
                        ConsolidatedIAMPolicy |-> policy,
                        SAsToDelete |-> sasToDelete,
                        SecretsToDelete |-> secretsToDelete]
          /\ iam \in ExecuteIAMClients(DOMAIN sasToCreate, DOMAIN sasToDelete)
          /\ sm \in ExecuteSecretClients(
                       DOMAIN secretsToCreate \cup {ZeroGCPSecret.Name,
                                                    GetUpdaterSASecretName("c1")},
                       DOMAIN secretsToDelete)
    /\ keyData = <<>>
    /\ keyErr = FALSE
    /\ secretErr = FALSE

\* ExecuteActions run once on the actions, against the clients
ExecuteActionsCall ==
    /\ pc = "ready"
    /\ \E result \in ExecuteActions(actions, iam, sm, PolicyAnswers, calls) :
          /\ actions' = result.actions
          /\ calls' = result.log
          /\ pc' = IF result.exited THEN "exited" ELSE "executed"
    /\ UNCHANGED <<inputVars, toPromoteVars, evals, runVars, refVars, execVars>>
    /\ UNCHANGED <<secretName, normalized, backoff, iam, sm, keyData, keyErr,
                   secretErr>>

SpecExecuteActions == InitExecuteActions /\ [][ExecuteActionsCall]_vars

----------------------------------------------------------------------------
(* Properties *)

promotion == configuration.PromotionConfiguration

\* the tags of the declared images
DeclaredTags == {configuration.Images[i].To : i \in 1..Len(configuration.Images)}

\* the tags listed in ExcludedImages
ExcludedTags == {promotion.ExcludedImages[i] : i \in 1..Len(promotion.ExcludedImages)}

\* the declared tags that are required, or declared by an image not marked optional
RequiredOrNotOptional ==
    {configuration.Images[i].To :
        i \in {j \in 1..Len(configuration.Images) :
                 \/ configuration.Images[j].To \in requiredImages
                 \/ ~configuration.Images[j].Optional}}

BuildCacheEnabled ==
    configuration.BinaryBuildCommands # <<>> /\ ~promotion.DisableBuildCache

GetFailed == ~runErr.isNil /\ runErr.message = "could not resolve pipeline imagestream"

\* C1: when promotion is disabled, PromotedTagsWithRequiredImages returns an empty
\* mapping and an empty set of names, and Run returns nil without a Get call and
\* without a pod.
C1_DisabledIsNoOp ==
    (pc = "done" /\ promotion.Disabled) =>
        /\ DOMAIN runTags = {}
        /\ runNames = {}
        /\ runErr = NoError
        /\ getCalls = 0
        /\ pods = <<>>

C1_Witness ==
    /\ pc = "done"
    /\ promotion.Disabled
    /\ Len(configuration.Images) = MaxImages
    /\ requiredImages # {}
    /\ promotion.ExcludedImages # <<>>
    /\ DOMAIN promotion.AdditionalImages # {}
    /\ configuration.BinaryBuildCommands # <<>>
    /\ ~promotion.DisableBuildCache

\* C2 as stated: no key of tagsByDst is listed in ExcludedImages.
C2_ExclusionAlwaysWins ==
    pc = "toPromote" => \A tag \in ExcludedTags : tag \notin DOMAIN tagsByDst

\* C2 as amended: a tag listed in ExcludedImages is a key of tagsByDst, or in names,
\* only as a destination of AdditionalImages; an excluded tag that comes from the
\* image list only is absent, also when it is required or not optional.
C2_ExclusionBeforeAdditional ==
    pc = "toPromote" =>
        \A tag \in ExcludedTags :
            (tag \in DOMAIN tagsByDst \/ tag \in names)
                => tag \in DOMAIN promotion.AdditionalImages

C2_Witness ==
    /\ pc = "toPromote"
    /\ ~promotion.Disabled
    /\ \E tag \in ExcludedTags :
          /\ tag \in RequiredOrNotOptional
          /\ tag \in requiredImages
          /\ tag \notin DOMAIN tagsByDst
    /\ DOMAIN tagsByDst # {}

\* C3: two evaluations of PromotedTagsWithRequiredImages on the same configuration
\* and required images return the same mapping and the same names.
C3_Idempotent ==
    Len(evals) >= 2 => evals[1] = evals[2]

\* C4: Run makes no Get call and creates no pod exactly when the promoted mapping
\* is empty.
C4_NoOpIffNothingPromoted ==
    pc = "done" => ((getCalls = 0 /\ pods = <<>>) <=> DOMAIN runTags = {})

\* C5: every entry dst -> src of AdditionalImages is in tagsByDst, and dst is in names.
C5_AdditionalImagesOverride ==
    (pc = "toPromote" /\ ~promotion.Disabled) =>
        \A dst \in DOMAIN promotion.AdditionalImages :
            /\ dst \in DOMAIN tagsByDst
            /\ tagsByDst[dst] = promotion.AdditionalImages[dst]
            /\ dst \in names

C5_Witness ==
    /\ pc = "toPromote"
    /\ ~promotion.Disabled
    /\ \E dst \in DOMAIN promotion.AdditionalImages :
          /\ dst \in RequiredOrNotOptional
          /\ dst \notin ExcludedTags
          /\ promotion.AdditionalImages[dst] # dst
          /\ tagsByDst[dst] = promotion.AdditionalImages[dst]

\* C6: without exclusions and additional images, the keys of tagsByDst are the
\* declared tags that are required or not optional, each mapped to itself.
C6_RequiredOrNotOptional ==
    (/\ pc = "toPromote"
     /\ ~promotion.Disabled
     /\ promotion.ExcludedImages = <<>>
     /\ DOMAIN promotion.AdditionalImages = {}) =>
        /\ DOMAIN tagsByDst = RequiredOrNotOptional
        /\ \A tag \in DOMAIN tagsByDst : tagsByDst[tag] = tag
        /\ names = RequiredOrNotOptional

C6_Witness ==
    /\ pc = "toPromote"
    /\ ~promotion.Disabled
    /\ promotion.ExcludedImages = <<>>
    /\ DOMAIN promotion.AdditionalImages = {}
    /\ \E i, j \in 1..Len(configuration.Images) :
          /\ configuration.Images[i].Optional
          /\ configuration.Images[i].To \in requiredImages
          /\ configuration.Images[i].To \in DOMAIN tagsByDst
          /\ configuration.Images[j].Optional
          /\ configuration.Images[j].To \notin requiredImages
          /\ configuration.Images[j].To \notin DOMAIN tagsByDst

\* images a (required) and b (optional, not required), ExcludedImages = [a],
\* AdditionalImages = {c: b}
C7_Scenario ==
    /\ ~promotion.Disabled
    /\ DeclaredTags = {TagA, TagB}
    /\ TagA \in requiredImages
    /\ TagB \notin requiredImages
    /\ \A i \in 1..Len(configuration.Images) :
          configuration.Images[i].To = TagB => configuration.Images[i].Optional
    /\ promotion.ExcludedImages = <<TagA>>
    /\ DOMAIN promotion.AdditionalImages = {TagC}
    /\ promotion.AdditionalImages[TagC] = TagB

\* C7: in the scenario, tagsByDst is {c: b} and names is {c}.
C7_ConcreteScenario ==
    (pc = "toPromote" /\ C7_Scenario) =>
        /\ DOMAIN tagsByDst = {TagC}
        /\ tagsByDst[TagC] = TagB
        /\ names = {TagC}

C7_Witness == pc = "toPromote" /\ C7_Scenario /\ DOMAIN tagsByDst = {TagC}

\* C8: for every pair (dst, src) chosen for promotion, the reference stored for src
\* is Namespace/Name:dst when Name is set and Namespace/dst:Tag otherwise.
C8_DestinationReference ==
    \A e \in 1..Len(evals) :
        \A p \in toPromote(promotion, configuration.Images, requiredImages) :
            \A dst \in DOMAIN p.tagsByDst :
                LET src == p.tagsByDst[dst]
                IN /\ src \in DOMAIN evals[e].tags
                   /\ ISTagName(evals[e].tags[src]) =
                        IF promotion.Name # <<>>
                        THEN promotion.Namespace \o <<"/">> \o promotion.Name
                                \o <<":">> \o dst
                        ELSE promotion.Namespace \o <<"/">> \o dst
                                \o <<":">> \o promotion.Tag

\* C9: with promotion enabled, the binaries tag is mapped to the build cache
\* reference if BinaryBuildCommands is set and DisableBuildCache is false, and is
\* not mapped to it otherwise.
C9_BuildCache ==
    \A e \in 1..Len(evals) :
        ~promotion.Disabled =>
            LET tags == evals[e].tags
                cached ==
                    /\ PipelineImageStreamTagReferenceBinaries \in DOMAIN tags
                    /\ tags[PipelineImageStreamTagReferenceBinaries] = BuildCacheFor
            IN cached <=> BuildCacheEnabled

C9_Witness ==
    /\ Len(evals) = 2
    /\ ~promotion.Disabled
    /\ configuration.BinaryBuildCommands # <<>>
    /\ promotion.DisableBuildCache
    /\ PipelineImageStreamTagReferenceBinaries \in DOMAIN evals[1].tags

\* the destination a promoted source tag is mirrored to
MirrorDestination(src) == registryDomain(promotion) \o <<"/">> \o ISTagName(runTags[src])

\* the promoted source tags with a recorded reference in the pipeline stream
BuiltTags == {src \in DOMAIN runTags : findDockerImageReference(pipeline, src) # <<>>}

\* C10: a promoted tag without a recorded reference gets no mirror mapping and
\* causes no error, the references of the other promoted tags are still in the
\* mapping and a pod is run for them, and when no promoted tag has a recorded
\* reference Run returns nil without a pod.
C10_UnbuiltTagsSkipped ==
    (pc = "done" /\ getCalls = 1 /\ ~GetFailed) =>
        /\ \A src \in (DOMAIN runTags) \ BuiltTags :
              \A ref \in DOMAIN imageMirrorTarget :
                  imageMirrorTarget[ref] # MirrorDestination(src)
        /\ \A src \in BuiltTags :
              getPublicImageReference(findDockerImageReference(pipeline, src),
                  pipeline.Status.PublicDockerImageRepository)
                      \in DOMAIN imageMirrorTarget
        /\ Cardinality(DOMAIN imageMirrorTarget) <= Cardinality(BuiltTags)
        /\ BuiltTags # {} => Len(pods) = 1
        /\ BuiltTags = {} => (runErr = NoError /\ pods = <<>>)

C10_Witness ==
    /\ pc = "done"
    /\ getCalls = 1
    /\ ~GetFailed
    /\ BuiltTags # {}
    /\ (DOMAIN runTags) \ BuiltTags # {}
    /\ \E t \in 1..Len(pipeline.Status.Tags) :
          /\ pipeline.Status.Tags[t].Tag \in DOMAIN runTags
          /\ pipeline.Status.Tags[t].Items = <<>>
    /\ Len(pods) = 1
    /\ runErr = NoError

\* the text of s before its first "/", for a string s with a "/"
HostOf(s) == SubSeq(s, 1, Index(s, <<"/">>) - 1)

\* the text of s from its first "/" on
PathOf(s) == SubSeq(s, Index(s, <<"/">>), Len(s))

HasSlash(s) == Index(s, <<"/">>) # 0

\* C11: for a reference host/path whose host contains :5000 and a public repository
\* publicHost/path, getPublicImageReference returns the reference with the host
\* replaced by publicHost and the rest unchanged.
C11_HostRewrite ==
    (/\ pc = "publicReference"
     /\ HasSlash(reference)
     /\ Contains(HostOf(reference), InternalRegistryPort)
     /\ HasSlash(repository)) =>
        publicReference = HostOf(repository) \o PathOf(reference)

\* f:5000/i... with the public repository p/n becomes p/i...
C11_Witness ==
    /\ pc = "publicReference"
    /\ HasSlash(reference)
    /\ HostOf(reference) = <<"f">> \o InternalRegistryPort
    /\ Contains(PathOf(reference), <<"f">> \o InternalRegistryPort)
    /\ repository = <<"p", "/", "n">>
    /\ HostOf(publicReference) = <<"p">>
    /\ PathOf(publicReference) = PathOf(reference)

\* C12: when the public repository of the stream names no host (it has no "/"),
\* every promoted tag with a recorded reference is in the mirror mapping under that
\* reference unchanged, the pod is run, and Run fails only if the pod does.
C12_NoPublicHost ==
    (/\ pc = "done"
     /\ getResult = "ok"
     /\ ~HasSlash(pipeline.Status.PublicDockerImageRepository)) =>
        /\ \A src \in BuiltTags :
              findDockerImageReference(pipeline, src) \in DOMAIN imageMirrorTarget
        /\ BuiltTags # {} =>
              /\ Len(pods) = 1
              /\ runErr.isNil \/ podResult = "error"

C12_Witness ==
    /\ pc = "done"
    /\ getResult = "ok"
    /\ pipeline.Status.PublicDockerImageRepository = <<"p">>
    /\ \E src \in BuiltTags : findDockerImageReference(pipeline, src) = InternalReference
    /\ InternalReference \in DOMAIN imageMirrorTarget
    /\ Len(pods) = 1
    /\ runErr = NoError

\* the source reference of a source=destination pair
SourceOf(pair) == SubSeq(pair, 1, Index(pair, <<"=">>) - 1)

\* the source=destination pairs of the mirror mapping
MirrorPairs ==
    {ref \o <<"=">> \o imageMirrorTarget[ref] : ref \in DOMAIN imageMirrorTarget}

\* C13: the pod lists one source=destination pair for each entry of the mirror
\* mapping, in ascending order of the source reference.
C13_PairsSortedBySource ==
    \A p \in 1..Len(pods) :
        LET images == pods[p].Images
        IN /\ Len(images) = Cardinality(DOMAIN imageMirrorTarget)
           /\ {images[i] : i \in 1..Len(images)} = MirrorPairs
           /\ \A i, j \in 1..Len(images) :
                 i < j => StrLess(SourceOf(images[i]), SourceOf(images[j]))

C13_Witness ==
    /\ pc = "done"
    /\ Len(pods) = 1
    /\ Len(pods[1].Images) = MaxStatusTags
    /\ \E ref \in DOMAIN imageMirrorTarget : Contains(ref, InternalRegistryPort)

\* C14: Run calls RunPod at most once; when the mirror mapping is not empty it calls
\* it once, with a pod that lists every entry of the mapping, also when the pod
\* fails; when the mapping is empty it does not call it.
C14_OneBatchedPod ==
    pc = "done" =>
        /\ Len(pods) <= 1
        /\ DOMAIN imageMirrorTarget # {} =>
              /\ Len(pods) = 1
              /\ \A pair \in MirrorPairs :
                    \E i \in 1..Len(pods[1].Images) : pods[1].Images[i] = pair
        /\ DOMAIN imageMirrorTarget = {} => pods = <<>>
        /\ (podResult = "none") <=> (pods = <<>>)

C14_Witness ==
    /\ pc = "done"
    /\ podResult = "error"
    /\ Cardinality(DOMAIN imageMirrorTarget) = MaxStatusTags
    /\ Len(pods) = 1

\* C15: Run returns an error exactly when the Get call or the pod failed, the error
\* carries the reason promoting_images, and after a failed Get no pod is run.
C15_ErrorOutcomes ==
    pc = "done" =>
        /\ ~runErr.isNil <=> (getResult = "error" \/ podResult = "error")
        /\ ~runErr.isNil => runErr.reason = "promoting_images"
        /\ getResult = "error" => (pods = <<>> /\ podResult = "none")

C15_Witness ==
    /\ pc = "done"
    /\ getResult = "ok"
    /\ podResult = "error"
    /\ ~runErr.isNil

\* C16: a step enters Running only when every step it requires is already
\* Succeeded, and while it is Running none of the steps it requires is in any
\* other state.
C16_CausalOrdering ==
    [][\A s \in Steps :
          /\ (state[s] # "Running" /\ state'[s] = "Running")
                => \A t \in RequiredSteps(s) : state[t] = "Succeeded"
          /\ state'[s] = "Running"
                => \A t \in RequiredSteps(s) : state'[t] = "Succeeded"]_vars

\* a step that requires two other steps is Running
C16_Witness ==
    /\ state # <<>>
    /\ \E s \in PlainSteps :
          /\ state[s] = "Running"
          /\ Cardinality(RequiredSteps(s)) = 2
          /\ runCount[s] = 1

\* C17: once a step A is Failed, a step B that requires A directly or
\* transitively has never run and ends up Skipped; a step is Skipped only with a
\* Failed step among the steps it requires directly or transitively, so a step
\* with no dependency path to a failed step ends up Succeeded or Failed.
C17_SkipPropagation ==
    /\ [](Executing =>
            \A a \in Steps : \A b \in Steps :
               (state[a] = "Failed" /\ a \in Ancestors(b))
                  => state[b] \in {"Pending", "Skipped"} /\ runCount[b] = 0)
    /\ [](Executing =>
            \A c \in Steps :
               state[c] = "Skipped" => \E a \in Ancestors(c) : state[a] = "Failed")
    /\ \A a \in Steps : \A b \in Steps :
          (Executing /\ state[a] = "Failed" /\ a \in Ancestors(b))
             ~> (state[b] = "Skipped")
    /\ \A c \in Steps :
          <>(\/ state[c] \in {"Succeeded", "Failed"}
             \/ \E a \in Ancestors(c) : state[a] = "Failed")

\* a step failed, a step that requires it was skipped without running, and a step
\* with no dependency path to or from the failed step ran and succeeded
C17_Witness ==
    /\ Executing
    /\ \E a \in PlainSteps : \E b \in PlainSteps : \E c \in PlainSteps :
          /\ state[a] = "Failed"
          /\ a \in RequiredSteps(b)
          /\ state[b] = "Skipped"
          /\ runCount[b] = 0
          /\ a \notin Ancestors(c)
          /\ c \notin Ancestors(a)
          /\ state[c] = "Succeeded"
          /\ state[PromotionStepName] = "Skipped"

\* C18: Run of each step is invoked at most once; two workers never hold the
\* same step, a step is in the runnable queue at most once, and a step in a
\* terminal state is in no queue, with no worker, and keeps its state and its
\* count of runs.
C18_AtMostOnce ==
    /\ [](Executing =>
            /\ \A s \in Steps : runCount[s] <= 1
            /\ \A v \in Workers : \A w \in Workers :
                  (v # w /\ worker[v] # "idle") => worker[v] # worker[w]
            /\ \A i \in 1..Len(queue) : \A j \in 1..Len(queue) :
                  i # j => queue[i] # queue[j]
            /\ \A s \in Steps :
                  state[s] \in TerminalStates =>
                     /\ \A i \in 1..Len(queue) : queue[i] # s
                     /\ \A w \in Workers : worker[w] # s
            /\ Len(pods) <= 1)
    /\ [][\A s \in Steps :
            state[s] \in TerminalStates =>
               state'[s] = state[s] /\ runCount'[s] = runCount[s]]_vars

\* two workers are running two different steps, after another step has run and
\* reached a terminal state
C18_Witness ==
    /\ Executing
    /\ parallelism = 2
    /\ worker[1] \in Steps
    /\ worker[2] \in Steps
    /\ worker[1] # worker[2]
    /\ runCount[worker[1]] = 1
    /\ runCount[worker[2]] = 1
    /\ \E s \in Steps : state[s] \in {"Succeeded", "Failed"} /\ runCount[s] = 1

\* the steps of the graph other than the promotion step
OtherSteps == Steps \ {PromotionStepName}

\* C19: the promotion step requires exactly the wildcard link, creates no link
\* and provides no parameter; it is Runnable, Running or run only when every
\* other step is Succeeded, and when another step is Failed or Skipped it has
\* not run and no mirror pod exists.
C19_PromotionRunsLast ==
    Executing =>
       /\ requires[PromotionStepName] = {AllStepsLink}
       /\ promotionCreates = {}
       /\ promotionProvides = {}
       /\ \A s \in Steps : PromotionStepName \notin RequiredSteps(s)
       /\ (\/ state[PromotionStepName] \in {"Runnable", "Running", "Succeeded", "Failed"}
           \/ runCount[PromotionStepName] > 0
           \/ getCalls > 0
           \/ pods # <<>>)
             => \A s \in OtherSteps : state[s] = "Succeeded"
       /\ (\E s \in OtherSteps : state[s] \in {"Failed", "Skipped"})
             => /\ runCount[PromotionStepName] = 0
                /\ state[PromotionStepName] \in {"Pending", "Skipped"}
                /\ pc = "ready"
                /\ pods = <<>>

\* one step failed after the others succeeded, and promotion was skipped without
\* a pod
C19_Witness ==
    /\ Executing
    /\ \E s \in OtherSteps :
          /\ state[s] = "Failed"
          /\ \A t \in OtherSteps \ {s} : state[t] = "Succeeded"
    /\ state[PromotionStepName] = "Skipped"
    /\ runCount[PromotionStepName] = 0
    /\ pods = <<>>

\* C20: every execution of an acyclic graph in which every Run returns reaches a
\* state where every step is Succeeded, Failed or Skipped and stays there; a
\* Runnable step is dispatched to a worker also after another step has failed.
C20_Terminates ==
    /\ <>[](Executing /\ AllTerminal)
    /\ \A s \in Steps :
          (Executing /\ state[s] = "Runnable" /\ \E a \in Steps : state[a] = "Failed")
             ~> (state[s] \in {"Succeeded", "Failed"} /\ runCount[s] = 1)

\* every step is terminal and the workers are idle; one step failed, and a step
\* that does not depend on it ran to its own result
C20_Witness ==
    /\ Executing
    /\ AllTerminal
    /\ queue = <<>>
    /\ \A w \in Workers : worker[w] = "idle"
    /\ \E a \in PlainSteps : \E c \in PlainSteps :
          /\ state[a] = "Failed"
          /\ a \notin Ancestors(c)
          /\ state[c] \in {"Succeeded", "Failed"}
          /\ a # c
          /\ runCount[c] = 1

\* C21: when the Executor has reported a run that was not cancelled, every step
\* is terminal and the result is Failed if and only if some step is Failed, and
\* Succeeded otherwise; a step reported Skipped is not Failed and has never run.
C21_OverallResult ==
    (Executing /\ runResult # "none" /\ ~cancelled) =>
       /\ AllTerminal
       /\ runResult \in {"Succeeded", "Failed"}
       /\ runResult = "Failed" <=> \E s \in Steps : state[s] = "Failed"
       /\ runResult = "Succeeded" <=> \A s \in Steps : state[s] \in {"Succeeded", "Skipped"}
       /\ runReason # "Cancelled"
       /\ \A s \in Steps : state[s] = "Skipped" => runCount[s] = 0

\* a run that was not cancelled is reported Failed: one step failed, promotion
\* was skipped, another step succeeded
C21_Witness ==
    /\ Executing
    /\ ~cancelled
    /\ runResult = "Failed"
    /\ state[PromotionStepName] = "Skipped"
    /\ \E s \in PlainSteps : state[s] = "Failed"
    /\ \E s \in PlainSteps : state[s] = "Succeeded"

\* the steps that are Running
RunningSteps == {s \in Steps : state[s] = "Running"}

\* C22: the number of Running steps never exceeds the parallelism limit, and
\* every Running step is held by one worker of the pool.
C22_BoundedParallelism ==
    Executing =>
       /\ Cardinality(RunningSteps) <= parallelism
       /\ \A s \in RunningSteps : \E w \in 1..parallelism : worker[w] = s

\* with a limit of two, two steps with no dependency path between them are
\* Running at the same time
C22_Witness ==
    /\ Executing
    /\ parallelism = 2
    /\ \E s \in PlainSteps : \E t \in PlainSteps :
          /\ s # t
          /\ state[s] = "Running"
          /\ state[t] = "Running"
          /\ s \notin Ancestors(t)
          /\ t \notin Ancestors(s)

\* a closed walk along the edges of the graph: each step of the walk requires
\* the one before it, and the first requires the last
ClosedWalks ==
    {p \in SeqUpTo(Steps, Cardinality(Steps)) :
        /\ p # <<>>
        /\ p[Len(p)] \in RequiredSteps(p[1])
        /\ \A i \in 1..(Len(p) - 1) : p[i] \in RequiredSteps(p[i + 1])}

\* the Graph Builder has run
Built == Executing \/ runReason = "CyclicDependency"

\* C23: the Graph Builder terminates; a graph it hands to the Executor has no
\* cycle among its edges; a requires relation with a cycle makes it fail with
\* CyclicDependency, and then no step gets a state, no Run is invoked, and
\* promotion makes no cluster call.
C23_GraphConstruction ==
    /\ <>Built
    /\ [](Executing => ClosedWalks = {})
    /\ [](ClosedWalks # {} =>
            /\ state = <<>>
            /\ runCount = <<>>
            /\ queue = <<>>
            /\ getCalls = 0
            /\ pods = <<>>
            /\ pc = "ready"
            /\ runResult \in {"none", "Failed"}
            /\ runResult = "Failed" <=> runReason = "CyclicDependency")
    /\ [](ClosedWalks # {} => <>(runResult = "Failed" /\ runReason = "CyclicDependency"))
    /\ [](runReason = "CyclicDependency" => ClosedWalks # {})

\* a cycle through three steps was rejected with CyclicDependency before any
\* step ran
C23_Witness ==
    /\ runResult = "Failed"
    /\ runReason = "CyclicDependency"
    /\ state = <<>>
    /\ getCalls = 0
    /\ \A s \in PlainSteps : Cardinality(RequiredSteps(s)) = 1 /\ s \notin RequiredSteps(s)
    /\ \E p \in ClosedWalks : Len(p) = 3

\* C24: once the cancellation signal is raised it stays raised and no step
\* enters Running any more; a step that is Running then still reaches Succeeded
\* or Failed; the run is reported, as Failed with reason Cancelled.
C24_Cancellation ==
    /\ [][cancelled =>
            /\ cancelled'
            /\ \A s \in Steps : state'[s] = "Running" => state[s] = "Running"
            /\ runCount' = runCount]_vars
    /\ \A s \in Steps :
          (cancelled /\ state[s] = "Running") ~> (state[s] \in {"Succeeded", "Failed"})
    /\ cancelled ~> (runResult = "Failed" /\ runReason = "Cancelled")
    /\ []((cancelled /\ runResult # "none") =>
             /\ runResult = "Failed"
             /\ runReason = "Cancelled"
             /\ \A s \in Steps : state[s] # "Running")

\* the run was cancelled and reported as such; a step that had run finished, a
\* step that was runnable stayed in the queue and never ran
C24_Witness ==
    /\ Executing
    /\ cancelled
    /\ runResult = "Failed"
    /\ runReason = "Cancelled"
    /\ \E s \in PlainSteps : state[s] = "Succeeded" /\ runCount[s] = 1
    /\ \E s \in PlainSteps :
          /\ state[s] = "Runnable"
          /\ runCount[s] = 0
          /\ queue # <<>>
          /\ Head(queue) = s
    /\ \A w \in Workers : worker[w] = "idle"

\* the name with each "." and each "_" replaced on its own, character by character
RECURSIVE ReplacedByCharacter(_)
ReplacedByCharacter(name) ==
    IF name = <<>> THEN <<>>
    ELSE (IF Head(name) = "." THEN DotReplacementString
          ELSE IF Head(name) = "_" THEN UnderscoreReplacementString
          ELSE <<Head(name)>>) \o ReplacedByCharacter(Tail(name))

\* C29: NormalizeSecretName returns the name with every "." replaced by
\* "--dot--" and every "_" by "--u--", the other characters kept in order; the
\* empty name gives the empty name; the result contains neither "." nor "_".
C29_NormalizeSecretName ==
    pc = "normalized" =>
       /\ normalized = ReplacedByCharacter(secretName)
       /\ secretName = <<>> => normalized = <<>>
       /\ \A i \in 1..Len(normalized) : normalized[i] \notin {".", "_"}

\* a name that starts with "." and has "_" twice in a row was normalized
C29_Witness ==
    /\ pc = "normalized"
    /\ secretName = <<".", "_", "_">>
    /\ normalized = DotReplacementString \o UnderscoreReplacementString
                        \o UnderscoreReplacementString

\* the answers CreateServiceAccountKey was set up to give, and the numbers of
\* calls generateServiceAccountKeyWithBackoff made
createKeyAnswers == iam.createKey[TestEmail]
createKeyCalls == Cardinality(CallsOf(calls, "CreateServiceAccountKey", TestEmail))
getAccountCalls == Cardinality(CallsOf(calls, "GetServiceAccount", TestEmail))

\* the first of the first n answers that is a success, 0 when there is none
FirstSuccess(answers, n) ==
    LET ok == {k \in 1..n : k <= Len(answers) /\ answers[k] = "ok"}
    IN IF ok = {} THEN 0 ELSE CHOOSE k \in ok : \A j \in ok : k <= j

\* C25: when CreateServiceAccountKey answers not-found until it succeeds, key
\* creation is attempted once per answer, up to backoff.Steps times: with only
\* not-found answers it is called backoff.Steps times and an error is returned,
\* with a success among the first backoff.Steps answers it is called up to that
\* answer and the key data is returned.
C25_RetryKeyCreation ==
    (/\ pc = "generated"
     /\ Len(createKeyAnswers) >= backoff.Steps
     /\ isServiceAccountNotFoundError(createKeyAnswers[1])
     /\ \A k \in 1..backoff.Steps :
           createKeyAnswers[k] = "ok" \/ isServiceAccountNotFoundError(createKeyAnswers[k]))
    => IF FirstSuccess(createKeyAnswers, backoff.Steps) = 0
       THEN createKeyCalls = backoff.Steps /\ keyErr
       ELSE /\ createKeyCalls = FirstSuccess(createKeyAnswers, backoff.Steps)
            /\ ~keyErr
            /\ keyData # <<>>

\* C26: when the first CreateServiceAccountKey call succeeds, it is the only
\* client call and its key data is returned; when it fails with an error that is
\* not a not-found error, it is the only client call and an error is returned.
C26_NoRetry ==
    pc = "generated" =>
       /\ (createKeyAnswers # <<>> /\ createKeyAnswers[1] = "ok") =>
             /\ createKeyCalls = 1
             /\ getAccountCalls = 0
             /\ Len(calls) = 1
             /\ ~keyErr
             /\ keyData = <<TestEmail, 1>>
       /\ (createKeyAnswers # <<>> /\ createKeyAnswers[1] = "other") =>
             /\ createKeyCalls = 1
             /\ getAccountCalls = 0
             /\ Len(calls) = 1
             /\ keyErr
             /\ keyData = <<>>

\* the first call failed with an error that is not a not-found error, although
\* the second call and the account lookup would have succeeded
C26_Witness ==
    /\ pc = "generated"
    /\ createKeyAnswers = <<"other", "ok">>
    /\ iam.getAccount[TestEmail] = <<"ok">>
    /\ createKeyCalls = 1
    /\ keyErr

\* the successful calls of one operation on one resource
SuccessfulCalls(log, op, arg) == {i \in CallsOf(log, op, arg) : log[i].answer = "ok"}

\* the account of a collection was created and a key was generated for it
AccountAndKeyMade(log, c) ==
    /\ SuccessfulCalls(log, "CreateServiceAccount", GetUpdaterSAId(c)) # {}
    /\ SuccessfulCalls(log, "CreateServiceAccountKey", GetUpdaterSAEmail(c)) # {}

\* the key data of the successful CreateServiceAccountKey call for a collection
GeneratedKey(log, c) ==
    <<GetUpdaterSAEmail(c),
      Cardinality({i \in CallsOf(log, "CreateServiceAccountKey", GetUpdaterSAEmail(c)) :
                     i <= CHOOSE j \in SuccessfulCalls(log, "CreateServiceAccountKey",
                                                      GetUpdaterSAEmail(c)) : TRUE})>>

\* C27: CreateServiceAccounts calls CreateServiceAccount once for every entry of
\* SAsToCreate and for no other account; where the account or its key could
\* not be made the updater secret of the collection is gone from
\* SecretsToCreate, where both were made the secret is kept with the generated
\* key as Payload; every other secret is left as it was.
C27_CreateServiceAccounts ==
    [][pc' = "accountsCreated" =>
         /\ \A c \in Collections :
               Cardinality(CallsOf(calls', "CreateServiceAccount", GetUpdaterSAId(c)))
                  = IF c \in DOMAIN actions.SAsToCreate THEN 1 ELSE 0
         /\ Cardinality({i \in 1..Len(calls') : calls'[i].op = "CreateServiceAccount"})
               = Cardinality(DOMAIN actions.SAsToCreate)
         /\ \A c \in DOMAIN actions.SAsToCreate :
               LET name == GetUpdaterSASecretName(c)
               IN IF AccountAndKeyMade(calls', c)
                  THEN name \in DOMAIN actions.SecretsToCreate =>
                          /\ name \in DOMAIN actions'.SecretsToCreate
                          /\ actions'.SecretsToCreate[name] =
                                [actions.SecretsToCreate[name]
                                    EXCEPT !.Payload = GeneratedKey(calls', c)]
                  ELSE name \notin DOMAIN actions'.SecretsToCreate
         /\ \A name \in DOMAIN actions.SecretsToCreate :
               name \notin {GetUpdaterSASecretName(c) : c \in DOMAIN actions.SAsToCreate}
                  => /\ name \in DOMAIN actions'.SecretsToCreate
                     /\ actions'.SecretsToCreate[name] = actions.SecretsToCreate[name]
         /\ actions'.SAsToCreate = actions.SAsToCreate]_vars

\* two accounts were to be created: the first could not be created and its
\* secret is gone, the second was created after the first failed, and its secret
\* holds the generated key
C27_Witness ==
    /\ pc = "accountsCreated"
    /\ DOMAIN actions.SAsToCreate = Collections
    /\ Len(calls) >= 3
    /\ calls[1] = [op |-> "CreateServiceAccount", arg |-> GetUpdaterSAId("c1"),
                   answer |-> "other"]
    /\ calls[2].op = "CreateServiceAccount"
    /\ calls[2].arg = GetUpdaterSAId("c2")
    /\ GetUpdaterSASecretName("c1") \notin DOMAIN actions.SecretsToCreate
    /\ GetUpdaterSASecretName("c2") \in DOMAIN actions.SecretsToCreate
    /\ actions.SecretsToCreate[GetUpdaterSASecretName("c2")] =
          GCPSecret(GetUpdaterSASecretName("c2"), SecretTypeSA, "c2",
                    <<GetUpdaterSAEmail("c2"), 2>>)

\* the calls of one operation on a secret, and their answers
SecretCalls(op, name) == Cardinality(CallsOf(calls, op, name))
SecretAnswer(op, name) == calls[CHOOSE i \in CallsOf(calls, op, name) : TRUE].answer

\* C30: CreateOrUpdateSecret calls GetSecret once; when GetSecret succeeds it
\* does not call CreateSecret and calls AddSecretVersion once; when GetSecret
\* fails it calls CreateSecret once, and AddSecretVersion once if and only if
\* the creation succeeded; a failed creation returns an error, and otherwise the
\* error returned is that of AddSecretVersion.
C30_CreateOrUpdateSecret ==
    pc = "secretWritten" =>
       \A name \in DOMAIN actions.SecretsToCreate :
          /\ SecretCalls("GetSecret", name) = 1
          /\ calls[1].op = "GetSecret"
          /\ IF SecretAnswer("GetSecret", name) = "ok"
             THEN /\ SecretCalls("CreateSecret", name) = 0
                  /\ SecretCalls("AddSecretVersion", name) = 1
                  /\ secretErr <=> SecretAnswer("AddSecretVersion", name) # "ok"
             ELSE /\ SecretCalls("CreateSecret", name) = 1
                  /\ calls[2].op = "CreateSecret"
                  /\ IF SecretAnswer("CreateSecret", name) = "ok"
                     THEN /\ SecretCalls("AddSecretVersion", name) = 1
                          /\ secretErr <=> SecretAnswer("AddSecretVersion", name) # "ok"
                     ELSE /\ SecretCalls("AddSecretVersion", name) = 0
                          /\ secretErr
          /\ \A i \in CallsOf(calls, "AddSecretVersion", name) :
                calls[i].payload = actions.SecretsToCreate[name].Payload

\* GetSecret reported the secret missing, CreateSecret failed, and the error was
\* returned after these two calls
C30_Witness ==
    /\ pc = "secretWritten"
    /\ Len(calls) = 2
    /\ calls[1].op = "GetSecret"
    /\ calls[1].answer = "grpcNotFound"
    /\ calls[2].op = "CreateSecret"
    /\ calls[2].answer = "other"
    /\ secretErr

\* every secret to create is absent from Secret Manager and every call succeeds
AbsentAndSucceeding ==
    /\ \A name \in DOMAIN actions.SecretsToCreate :
          /\ sm.getSecret[name] = <<"grpcNotFound">>
          /\ sm.createSecret[name] = <<"ok">>
          /\ sm.addVersion[name] = <<"ok">>
    /\ \A c \in Collections : iam.createKey[GetUpdaterSAEmail(c)] = <<"ok">>

\* the service-account secrets to create that have no payload
SecretsWithoutKey ==
    {name \in DOMAIN actions.SecretsToCreate :
        /\ actions.SecretsToCreate[name].Type = SecretTypeSA
        /\ actions.SecretsToCreate[name].Payload = <<>>}

\* C28: with every secret absent and every call succeeding, CreateSecrets calls
\* GetSecret, CreateSecret and AddSecretVersion once for each entry of
\* SecretsToCreate, generates one key for each service-account secret without
\* Payload and none for any other secret, and leaves every index secret with a
\* Payload.
C28_CreateSecrets ==
    [][(pc' = "secretsCreated" /\ AbsentAndSucceeding) =>
         /\ \A name \in DOMAIN actions.SecretsToCreate :
               /\ Cardinality(CallsOf(calls', "GetSecret", name)) = 1
               /\ Cardinality(CallsOf(calls', "CreateSecret", name)) = 1
               /\ Cardinality(CallsOf(calls', "AddSecretVersion", name)) = 1
         /\ \A c \in Collections :
               Cardinality(CallsOf(calls', "CreateServiceAccountKey", GetUpdaterSAEmail(c)))
                  = IF GetUpdaterSASecretName(c) \in SecretsWithoutKey THEN 1 ELSE 0
         /\ Len(calls') = 3 * Cardinality(DOMAIN actions.SecretsToCreate)
                             + Cardinality(SecretsWithoutKey)
         /\ DOMAIN actions'.SecretsToCreate = DOMAIN actions.SecretsToCreate
         /\ \A name \in DOMAIN actions'.SecretsToCreate :
               /\ actions'.SecretsToCreate[name].Type = SecretTypeIndex
                     => actions'.SecretsToCreate[name].Payload # <<>>
               /\ name \in SecretsWithoutKey
                     => actions'.SecretsToCreate[name].Payload # <<>>
               /\ (actions.SecretsToCreate[name].Type = SecretTypeSA
                      /\ name \notin SecretsWithoutKey)
                     => actions'.SecretsToCreate[name] = actions.SecretsToCreate[name]]_vars

\* three secrets were created with ten calls: a key was generated for the first
\* collection's updater secret, the second one kept the payload it had, and the
\* index secret got its payload
C28_Witness ==
    /\ pc = "secretsCreated"
    /\ AbsentAndSucceeding
    /\ Cardinality(DOMAIN actions.SecretsToCreate) = 3
    /\ Len(calls) = 10
    /\ actions.SecretsToCreate[GetUpdaterSASecretName("c1")].Payload =
          <<GetUpdaterSAEmail("c1"), 1>>
    /\ actions.SecretsToCreate[GetUpdaterSASecretName("c2")].Payload = <<"old">>
    /\ actions.SecretsToCreate[GetIndexSecretName("c1")].Payload = IndexPayload

\* the promoted source tags for which the pipeline stream records a reference
ResolvedSources == {src \in DOMAIN runTags : findDockerImageReference(pipeline, src) # <<>>}

\* C31: when Run has fetched the pipeline stream, the mirror mapping has one
\* source=destination pair for each promoted source tag with a recorded
\* reference, also when two source tags resolve to the same pull reference.
C31_NoImageLost ==
    (pc = "done" /\ getResult = "ok") =>
        Cardinality(DOMAIN imageMirrorTarget) = Cardinality(ResolvedSources)

\* the sources of the returned mapping whose reference is the destination dst
EntriesFor(tags, dst) == {src \in DOMAIN tags : tags[src] = destinationFor(promotion, dst)}

\* the entries of the returned mapping that stand for promoted images
ImageEntries(tags) ==
    {src \in DOMAIN tags : \E dst \in DstTags : tags[src] = destinationFor(promotion, dst)}

\* C32: every destination key of toPromote's tagsByDst is the destination of
\* exactly one entry of the mapping PromotedTagsWithRequiredImages returns, and
\* the mapping has as many image entries as the returned names set has names.
C32_NoDestinationLost ==
    \A e \in 1..Len(evals) :
        ~promotion.Disabled =>
            /\ \A p \in toPromote(promotion, configuration.Images, requiredImages) :
                  \A dst \in DOMAIN p.tagsByDst :
                      Cardinality(EntriesFor(evals[e].tags, dst)) = 1
            /\ Cardinality(ImageEntries(evals[e].tags)) = Cardinality(evals[e].names)

\* C35: CreateServiceAccounts adds no entry to SecretsToCreate, and every entry
\* it leaves keeps its Name, Type and Collection, also when an account to create
\* has no updater secret in SecretsToCreate.
C35_NoSecretAdded ==
    [][(pc = "ready" /\ pc' = "accountsCreated") =>
          /\ DOMAIN actions'.SecretsToCreate \subseteq DOMAIN actions.SecretsToCreate
          /\ \A n \in DOMAIN actions'.SecretsToCreate \cap DOMAIN actions.SecretsToCreate :
                /\ actions'.SecretsToCreate[n].Name = actions.SecretsToCreate[n].Name
                /\ actions'.SecretsToCreate[n].Type = actions.SecretsToCreate[n].Type
                /\ actions'.SecretsToCreate[n].Collection =
                      actions.SecretsToCreate[n].Collection]_vars

\* the positions of the CreateServiceAccountKey calls in the calls made
createKeyPositions == CallsOf(calls, "CreateServiceAccountKey", TestEmail)

SecretOps == {"GetSecret", "CreateSecret", "AddSecretVersion"}

\* the calls of the Secret Manager client for one secret among the calls made
WritesOf(log, name) == {i \in 1..Len(log) : log[i].op \in SecretOps /\ log[i].arg = name}

\* the service-account secret has no payload and the key of its account cannot
\* be generated
KeyGenerationFails(s) ==
    /\ s.Type = SecretTypeSA
    /\ s.Payload = <<>>
    /\ iam.createKey[GetUpdaterSAEmail(s.Collection)] = <<"other">>

\* C37: when key generation fails for a service-account secret without payload,
\* CreateSecrets makes no GetSecret, CreateSecret or AddSecretVersion call for
\* it and leaves its entry as it was; every other secret is still processed,
\* and no version with an empty payload is written for a service-account secret.
C37_KeyGenerationFailure ==
    [][(pc = "ready" /\ pc' = "secretsCreated") =>
          \A n \in DOMAIN actions.SecretsToCreate :
             LET s == actions.SecretsToCreate[n]
             IN /\ KeyGenerationFails(s) =>
                      /\ WritesOf(calls', n) = {}
                      /\ n \in DOMAIN actions'.SecretsToCreate
                      /\ actions'.SecretsToCreate[n] = s
                /\ ~KeyGenerationFails(s) =>
                      Cardinality(CallsOf(calls', "GetSecret", n)) = 1
                /\ s.Type = SecretTypeSA =>
                      \A i \in CallsOf(calls', "AddSecretVersion", n) :
                          calls'[i].payload # <<>>]_vars

\* the key of the first collection could not be generated and its secret was
\* left alone, while the secret of the second collection got a new key and was
\* written, and so was the index secret
C37_Witness ==
    /\ pc = "secretsCreated"
    /\ iam.createKey[GetUpdaterSAEmail("c1")] = <<"other">>
    /\ iam.createKey[GetUpdaterSAEmail("c2")] = <<"ok">>
    /\ DOMAIN actions.SecretsToCreate =
          {GetUpdaterSASecretName("c1"), GetUpdaterSASecretName("c2"),
           GetIndexSecretName("c1")}
    /\ actions.SecretsToCreate[GetUpdaterSASecretName("c1")].Payload = <<>>
    /\ actions.SecretsToCreate[GetUpdaterSASecretName("c2")].Payload =
          <<GetUpdaterSAEmail("c2"), 1>>
    /\ CallsOf(calls, "CreateServiceAccountKey", GetUpdaterSAEmail("c1")) # {}
    /\ WritesOf(calls, GetUpdaterSASecretName("c1")) = {}
    /\ CallsOf(calls, "AddSecretVersion", GetUpdaterSASecretName("c2")) # {}
    /\ CallsOf(calls, "AddSecretVersion", GetIndexSecretName("c1")) # {}

\* the names NormalizeSecretName is applied to
SecretNames == {Concat(parts) : parts \in SeqUpTo(SecretNameParts, MaxSecretNameParts)}

\* C39: NormalizeSecretName is injective, no other name is normalized to the
\* normalized name of this one, also for names that contain "--dot--" or
\* "--u--"; and it is idempotent, the normalized name is its own normalization.
C39_InjectiveIdempotent ==
    pc = "normalized" =>
       /\ \A other \in SecretNames :
             NormalizeSecretName(other) = normalized => other = secretName
       /\ NormalizeSecretName(normalized) = normalized

\* the phase of ExecuteActions a client call belongs to; a key can be generated
\* in the first phase and in the second
PhaseOf(call) ==
    CASE call.op = "CreateServiceAccount" -> 1
      [] call.op \in SecretOps -> 2
      [] call.op = "SetIamPolicy" -> 3
      [] call.op \in {"ListServiceAccountKeys", "DeleteServiceAccountKey"} -> 4
      [] call.op = "DeleteServiceAccount" -> 5
      [] call.op = "DeleteSecret" -> 6
      [] OTHER -> 0

\* the calls of the given operations among the calls made
CallsOfOps(ops) == {i \in 1..Len(calls) : calls[i].op \in ops}

\* ExecuteActions has returned, or has ended the process
Executed == pc \in {"executed", "exited"}

\* C33: the client calls of ExecuteActions come phase by phase: service-account
\* creations, then secret creations, then the policy update, then key
\* revocations, then service-account deletions, then secret deletions; a phase
\* with an empty work list, or a nil policy, makes no call; and the secret
\* phase works on SecretsToCreate as the service-account phase left it.
C33_PhaseOrder ==
    Executed =>
       /\ \A i, j \in 1..Len(calls) :
             (i < j /\ PhaseOf(calls[j]) # 0) =>
                 IF PhaseOf(calls[i]) # 0 THEN PhaseOf(calls[i]) <= PhaseOf(calls[j])
                 ELSE PhaseOf(calls[j]) >= 2
       /\ DOMAIN actions.SAsToCreate = {} => CallsOfOps({"CreateServiceAccount"}) = {}
       /\ DOMAIN actions.SecretsToCreate = {} => CallsOfOps(SecretOps) = {}
       /\ actions.ConsolidatedIAMPolicy.isNil => CallsOfOps({"SetIamPolicy"}) = {}
       /\ DOMAIN actions.SAsToDelete = {} =>
             CallsOfOps({"ListServiceAccountKeys", "DeleteServiceAccountKey",
                         "DeleteServiceAccount"}) = {}
       /\ DOMAIN actions.SecretsToDelete = {} => CallsOfOps({"DeleteSecret"}) = {}
       /\ \A c \in DOMAIN actions.SAsToCreate :
             LET created == CallsOf(calls, "CreateServiceAccount", GetUpdaterSAId(c))
                 name == GetUpdaterSASecretName(c)
             IN IF \E i \in created : calls[i].answer # "ok"
                THEN /\ name \notin DOMAIN actions.SecretsToCreate
                     /\ WritesOf(calls, name) = {}
                ELSE /\ name \in DOMAIN actions.SecretsToCreate
                     /\ Cardinality(CallsOf(calls, "CreateServiceAccountKey",
                                            GetUpdaterSAEmail(c))) = 1
                     /\ \A i \in CallsOf(calls, "AddSecretVersion",
                                         actions.SecretsToCreate[name].Name) :
                           calls[i].payload = <<GetUpdaterSAEmail(c), 1>>

\* every phase had work and made its calls, the policy was applied
C33_Witness ==
    /\ pc = "executed"
    /\ CallsOfOps({"CreateServiceAccount"}) # {}
    /\ CallsOf(calls, "AddSecretVersion", GetUpdaterSASecretName("c1")) # {}
    /\ CallsOf(calls, "AddSecretVersion", GetIndexSecretName("c1")) # {}
    /\ CallsOfOps({"SetIamPolicy"}) # {}
    /\ Cardinality(CallsOfOps({"DeleteServiceAccountKey"})) >= 2
    /\ Cardinality(CallsOfOps({"DeleteServiceAccount"})) = 2
    /\ Cardinality(CallsOfOps({"DeleteSecret"})) = 2

\* the SetIamPolicy calls that failed
FailedPolicyCalls == {i \in CallsOfOps({"SetIamPolicy"}) : calls[i].answer # "ok"}

\* C34: when applying the IAM policy fails, ExecuteActions stops there: the
\* failed SetIamPolicy call is the last call, and no key is revoked, no service
\* account and no secret is deleted.  Failed create and delete calls of the
\* other phases stop nothing: unless the policy update failed the run goes
\* through every phase, so every account to delete gets its DeleteServiceAccount
\* call and every secret to delete its DeleteSecret call.
C34_PolicyFailureStops ==
    Executed =>
       /\ pc = "exited" <=> FailedPolicyCalls # {}
       /\ pc = "exited" =>
             /\ FailedPolicyCalls = {Len(calls)}
             /\ CallsOfOps({"ListServiceAccountKeys", "DeleteServiceAccountKey",
                            "DeleteServiceAccount", "DeleteSecret"}) = {}
       /\ \A c \in DOMAIN actions.SAsToCreate :
             Cardinality(CallsOf(calls, "CreateServiceAccount", GetUpdaterSAId(c))) = 1
       /\ \A n \in DOMAIN actions.SecretsToCreate :
             Cardinality(CallsOf(calls, "GetSecret", actions.SecretsToCreate[n].Name)) = 1
       /\ pc = "executed" =>
             /\ \A c \in DOMAIN actions.SAsToDelete :
                   Cardinality(CallsOf(calls, "DeleteServiceAccount",
                                       actions.SAsToDelete[c].Email)) = 1
             /\ \A n \in DOMAIN actions.SecretsToDelete :
                   Cardinality(CallsOf(calls, "DeleteSecret",
                                       actions.SecretsToDelete[n].Name)) = 1

\* the policy update failed on concurrent changes after a secret could not be
\* created, and the accounts and secrets to delete were left alone
C34_Witness ==
    /\ pc = "exited"
    /\ calls[Len(calls)].answer = "failedPrecondition"
    /\ \E i \in CallsOfOps({"CreateSecret"}) : calls[i].answer # "ok"
    /\ Cardinality(DOMAIN actions.SAsToDelete) = 2
    /\ Cardinality(DOMAIN actions.SecretsToDelete) = 2
    /\ CallsOfOps({"DeleteServiceAccount", "DeleteSecret"}) = {}

\* the run went through every phase although calls of the other phases failed
C34_WitnessOtherFailures ==
    /\ pc = "executed"
    /\ \E i \in CallsOfOps({"CreateServiceAccount"}) : calls[i].answer # "ok"
    /\ \E i \in CallsOfOps({"DeleteServiceAccountKey"}) : calls[i].answer # "ok"
    /\ \E i \in CallsOfOps({"DeleteServiceAccount"}) : calls[i].answer # "ok"
    /\ \E i \in CallsOfOps({"DeleteSecret"}) : calls[i].answer # "ok"
    /\ Cardinality(CallsOfOps({"DeleteSecret"})) = 2

\* the keys ListServiceAccountKeys gave for the account, none when it failed
ListedKeys(email) ==
    IF iam.listKeys[email].err THEN {}
    ELSE {iam.listKeys[email].Keys[k] : k \in 1..Len(iam.listKeys[email].Keys)}

\* the accounts to delete
EmailsToDelete == {actions.SAsToDelete[c].Email : c \in DOMAIN actions.SAsToDelete}

\* C38: when ExecuteActions gets to the deletion of service accounts, the keys
\* of every account in SAsToDelete are listed once; DeleteServiceAccountKey is
\* called once for each USER_MANAGED key listed for such an account and for no
\* other key, whatever the other listings and deletions answered; and
\* DeleteServiceAccount is called once for every account in SAsToDelete, after
\* every listing and every key deletion.
C38_RevocationAndDeletion ==
    pc = "executed" =>
       /\ \A e \in EmailsToDelete :
             /\ Cardinality(CallsOf(calls, "ListServiceAccountKeys", e)) = 1
             /\ Cardinality(CallsOf(calls, "DeleteServiceAccount", e)) = 1
             /\ \A key \in ListedKeys(e) :
                   Cardinality(CallsOf(calls, "DeleteServiceAccountKey", key.Name)) =
                      IF key.KeyType = KeyTypeUserManaged THEN 1 ELSE 0
       /\ \A i \in CallsOfOps({"DeleteServiceAccountKey"}) :
             \E e \in EmailsToDelete : \E key \in ListedKeys(e) :
                /\ key.Name = calls[i].arg
                /\ key.KeyType = KeyTypeUserManaged
       /\ \A i \in CallsOfOps({"DeleteServiceAccount"}) :
             /\ calls[i].arg \in EmailsToDelete
             /\ \A j \in CallsOfOps({"ListServiceAccountKeys", "DeleteServiceAccountKey"}) :
                   j < i

\* the keys of one obsolete account could not be listed; the other account had
\* a system key, which was kept, and a user key, whose deletion failed; both
\* accounts were then deleted
C38_Witness ==
    /\ pc = "executed"
    /\ EmailsToDelete = {GetUpdaterSAEmail("o1"), GetUpdaterSAEmail("o2")}
    /\ iam.listKeys[GetUpdaterSAEmail("o1")].err
    /\ iam.listKeys[GetUpdaterSAEmail("o2")].Keys =
          <<SystemKey(GetUpdaterSAEmail("o2")), UserKey(GetUpdaterSAEmail("o2"))>>
    /\ \E i \in CallsOf(calls, "DeleteServiceAccountKey",
                        UserKey(GetUpdaterSAEmail("o2")).Name) : calls[i].answer # "ok"
    /\ calls[1].op = "ListServiceAccountKeys"
    /\ calls[1].arg = GetUpdaterSAEmail("o1")
    /\ Cardinality(CallsOfOps({"DeleteServiceAccount"})) = 2

====
